---- MODULE Spec2Model ----
(***************************************************************************)
(* Model of the Go ranking service (service/cmd/server/main.go): the       *)
(* in-memory feature store filled by LoadData, the handlers of /rank,      *)
(* /search, /movie/ and /health with the rankers and the title search, and *)
(* the pure scoring helpers.                                               *)
(*                                                                         *)
(* Representation.                                                         *)
(*  - A Go string on which the code works character by character (titles,  *)
(*    genre lists, numeric CSV fields) is a sequence of one-character      *)
(*    strings; strings that are only copied or compared are TLA+ strings.  *)
(*  - A float64 is a fixed-point integer.  Rating means, vote averages and *)
(*    popularities are held in tenths (42 is 4.2); scores and the genre    *)
(*    similarity are held in ten-thousandths (Unit is 1.0).  All values    *)
(*    are finite: NaN and infinities are outside the modelled domain.      *)
(*  - A Go pointer (to int, to UserFeatures) is a sequence of length 0    *)
(*    (nil) or 1.                                                          *)
(***************************************************************************)
EXTENDS Integers, Sequences, FiniteSets, TLC

VARIABLES
    moviesFile,   \* contents of <DataDir>/movie_features.csv
    usersFile,    \* contents of <DataDir>/user_features.csv
    pc,           \* "boot" before main calls LoadData, then "serving", and
                  \* "responded" while a response is on its way out
    Movies,       \* App.Movies
    MoviesByID,   \* App.MoviesByID
    UsersByID,    \* App.UsersByID
    loadErr,      \* the error LoadData returned ("" for nil)
    req,          \* the request the last handler call received
    call,         \* the ranker the last handleRank call invoked, and its arguments
    resp,         \* the response the last handler call wrote
    probe,        \* a pure function applied to drawn inputs, and its value
    inflight      \* the requests being served concurrently, one per goroutine

vars == <<moviesFile, usersFile, pc, Movies, MoviesByID, UsersByID, loadErr,
          req, call, resp, probe, inflight>>

(***************************************************************************)
(* Bounds of the model.                                                    *)
(***************************************************************************)
MaxRows == 3        \* data rows in a modelled movie file
MaxK == 2           \* largest explicit k of a modelled rank request
MaxGenreLen == 3    \* length of the enumerated genre strings
MaxInFlight == 2    \* requests served at the same time

\* 1.0 in the fixed-point representation of scores and similarities.
Unit == 100 * 100

Nil == <<>>
Ptr(v) == <<v>>

Abs(x) == IF x < 0 THEN -x ELSE x
Min(x, y) == IF x < y THEN x ELSE y

(***************************************************************************)
(* package strings                                                         *)
(***************************************************************************)
UpperChars == <<"A","B","C","D","E","F","G","H","I","J","K","L","M",
                "N","O","P","Q","R","S","T","U","V","W","X","Y","Z">>
LowerChars == <<"a","b","c","d","e","f","g","h","i","j","k","l","m",
                "n","o","p","q","r","s","t","u","v","w","x","y","z">>

ToLowerChar(c) ==
    IF \E i \in 1..Len(UpperChars) : UpperChars[i] = c
    THEN LowerChars[CHOOSE i \in 1..Len(UpperChars) : UpperChars[i] = c]
    ELSE c

\* strings.ToLower
ToLower(s) == [i \in 1..Len(s) |-> ToLowerChar(s[i])]

IsSpace(c) == c \in {" ", "\t", "\n", "\r"}

RECURSIVE TrimLeft(_)
TrimLeft(s) ==
    IF s # <<>> /\ IsSpace(Head(s)) THEN TrimLeft(Tail(s)) ELSE s

RECURSIVE TrimRight(_)
TrimRight(s) ==
    IF s # <<>> /\ IsSpace(s[Len(s)]) THEN TrimRight(SubSeq(s, 1, Len(s) - 1)) ELSE s

\* strings.TrimSpace
TrimSpace(s) == TrimRight(TrimLeft(s))

\* strings.Split(s, sep) for a one-character separator: the pieces between
\* the separators, in order; always at least one piece.
RECURSIVE SplitFrom(_, _, _)
SplitFrom(s, sep, cur) ==
    IF s = <<>> THEN <<cur>>
    ELSE IF Head(s) = sep THEN <<cur>> \o SplitFrom(Tail(s), sep, <<>>)
    ELSE SplitFrom(Tail(s), sep, Append(cur, Head(s)))

Split(s, sep) == SplitFrom(s, sep, <<>>)

\* strings.HasPrefix, strings.HasSuffix
HasPrefix(s, prefix) ==
    Len(prefix) <= Len(s) /\ SubSeq(s, 1, Len(prefix)) = prefix
HasSuffix(s, suffix) ==
    Len(suffix) <= Len(s) /\ SubSeq(s, Len(s) - Len(suffix) + 1, Len(s)) = suffix

\* the 0-based offsets at which substr occurs in s
Occurrences(s, substr) ==
    { i \in 0..(Len(s) - Len(substr)) : SubSeq(s, i + 1, i + Len(substr)) = substr }

\* strings.Contains
Contains(s, substr) == Occurrences(s, substr) # {}

\* strings.LastIndex: the offset of the last occurrence, -1 if there is none
LastIndex(s, substr) ==
    IF Occurrences(s, substr) = {} THEN -1
    ELSE CHOOSE i \in Occurrences(s, substr) : \A j \in Occurrences(s, substr) : j <= i

(***************************************************************************)
(* Genre similarity.                                                       *)
(***************************************************************************)
\* func preferGenres(m Movie) string
\* variant: the enrichment string is never looked at
preferGenresAlwaysBaseline(m) == m.Genres

preferGenres(m) ==
    IF TrimSpace(m.TMDBGenres) # <<>> THEN m.TMDBGenres ELSE m.Genres

\* The loop of parseGenres over the parts: a map[string]bool whose values
\* are all true is the set of its keys.
RECURSIVE parseGenresLoop(_, _)
parseGenresLoop(parts, out) ==
    IF parts = <<>> THEN out
    ELSE LET p == TrimSpace(Head(parts))
         IN  IF p = <<>>
             THEN parseGenresLoop(Tail(parts), out)
             ELSE parseGenresLoop(Tail(parts), out \cup {ToLower(p)})

\* func parseGenres(raw string) map[string]bool  (nil and the empty map are
\* both the empty set: the caller only takes len and looks keys up)
parseGenres(raw) ==
    LET cleaned == TrimSpace(raw)
    IN  IF cleaned = <<>> THEN {}
        ELSE parseGenresLoop(Split(cleaned, "|"), {})

\* float64(intersection) / float64(union), in ten-thousandths
FloatDiv(n, d) == (n * Unit) \div d

\* variant: the union counts the shared names twice
genreSimilarityUnionSum(a, b) ==
    LET aGenres == parseGenres(preferGenres(a))
        bGenres == parseGenres(preferGenres(b))
        intersection == Cardinality({g \in aGenres : g \in bGenres})
    IN  IF Cardinality(aGenres) = 0 \/ Cardinality(bGenres) = 0 THEN 0
        ELSE FloatDiv(intersection, Cardinality(aGenres) + Cardinality(bGenres))

\* func genreSimilarity(a Movie, b Movie) float64
genreSimilarity(a, b) ==
    LET aGenres == parseGenres(preferGenres(a))
        bGenres == parseGenres(preferGenres(b))
    IN  IF Cardinality(aGenres) = 0 \/ Cardinality(bGenres) = 0 THEN 0
        ELSE LET intersection == Cardinality({g \in aGenres : g \in bGenres})
                 union == Cardinality(aGenres) + Cardinality(bGenres) - intersection
             IN  IF union = 0 THEN 0
                 ELSE FloatDiv(intersection, union)

(***************************************************************************)
(* package strconv, on the decimal notations the feature tables use.       *)
(* A float field is read into tenths: digits, an optional point, and the   *)
(* first fractional digit (the tables modelled carry at most one).         *)
(* Exponents, hexadecimal floats, "inf" and "nan" are not modelled: no     *)
(* modelled field holds them.                                              *)
(***************************************************************************)
DigitChars == <<"0","1","2","3","4","5","6","7","8","9">>

IsDigit(c) == \E i \in 1..10 : DigitChars[i] = c
DigitVal(c) == (CHOOSE i \in 1..10 : DigitChars[i] = c) - 1
AllDigits(s) == \A i \in 1..Len(s) : IsDigit(s[i])

RECURSIVE DigitsValue(_, _)
DigitsValue(s, acc) ==
    IF s = <<>> THEN acc ELSE DigitsValue(Tail(s), acc * 10 + DigitVal(Head(s)))

HasSign(s) == s # <<>> /\ Head(s) \in {"+", "-"}
Unsigned(s) == IF HasSign(s) THEN Tail(s) ELSE s
SignOf(s) == IF s # <<>> /\ Head(s) = "-" THEN -1 ELSE 1

\* strconv.Atoi: [ok, val]
Atoi(s) ==
    LET d == Unsigned(s)
    IN  IF d # <<>> /\ AllDigits(d)
        THEN [ok |-> TRUE, val |-> SignOf(s) * DigitsValue(d, 0)]
        ELSE [ok |-> FALSE, val |-> 0]

\* strconv.ParseFloat(s, 64): [ok, val], val in tenths
ParseFloat(s) ==
    LET d == Unsigned(s)
        parts == Split(d, ".")
        ip == parts[1]
        fp == IF Len(parts) = 2 THEN parts[2] ELSE <<>>
    IN  IF Len(parts) <= 2 /\ AllDigits(ip) /\ AllDigits(fp) /\ Len(ip) + Len(fp) > 0
        THEN [ok |-> TRUE,
              val |-> SignOf(s) * (DigitsValue(ip, 0) * 10
                                   + (IF fp = <<>> THEN 0 ELSE DigitVal(fp[1])))]
        ELSE [ok |-> FALSE, val |-> 0]

(***************************************************************************)
(* The CSV loaders.  A file is [exists, records]: whether os.Open succeeds *)
(* and the records csv.Reader yields, the header first.  A record is       *)
(* [err, fields]: err is "" or the reader's parse error for that record.   *)
(* With FieldsPerRecord = -1 the reader makes no field-count check, so it  *)
(* never yields csv.ErrFieldCount.  Column names are atomic strings        *)
(* without surrounding blanks, on which headerIndex's TrimSpace changes    *)
(* nothing.                                                                *)
(***************************************************************************)
\* func headerIndex(header []string) map[string]int  (a later duplicate wins;
\* indices are 1-based here)
headerIndex(header) ==
    [col \in {header[i] : i \in 1..Len(header)} |->
        CHOOSE i \in 1..Len(header) :
            header[i] = col /\ \A j \in (i + 1)..Len(header) : header[j] # col]

\* func parseString(row []string, idx map[string]int, col string) string
parseString(row, idx, col) ==
    IF col \notin DOMAIN idx \/ idx[col] > Len(row) THEN <<>>
    ELSE row[idx[col]]

\* func parseInt(row []string, idx map[string]int, col string) int
parseInt(row, idx, col) ==
    IF col \notin DOMAIN idx \/ idx[col] > Len(row) THEN 0
    ELSE LET val == TrimSpace(row[idx[col]])
         IN  IF val = <<>> THEN 0
             ELSE IF ~Atoi(val).ok THEN 0
             ELSE Atoi(val).val

\* variant: a value that does not parse is read as its length
parseFloatCountsGarbage(row, idx, col) ==
    IF col \notin DOMAIN idx \/ idx[col] > Len(row) THEN 0
    ELSE LET val == TrimSpace(row[idx[col]])
         IN  IF val = <<>> THEN 0
             ELSE IF ~ParseFloat(val).ok THEN Len(val)
             ELSE ParseFloat(val).val

\* func parseFloat(row []string, idx map[string]int, col string) float64
parseFloat(row, idx, col) ==
    IF col \notin DOMAIN idx \/ idx[col] > Len(row) THEN 0
    ELSE LET val == TrimSpace(row[idx[col]])
         IN  IF val = <<>> THEN 0
             ELSE IF ~ParseFloat(val).ok THEN 0
             ELSE ParseFloat(val).val

\* The Movie literal loadMoviesCSV appends for one row.
movieOfRow(row, idx) ==
    [MovieID        |-> parseInt(row, idx, "movieId"),
     Title          |-> parseString(row, idx, "title"),
     Genres         |-> parseString(row, idx, "genres"),
     RatingMean     |-> parseFloat(row, idx, "rating_mean"),
     RatingCount    |-> parseInt(row, idx, "rating_count"),
     TMDBVoteAvg    |-> parseFloat(row, idx, "tmdb_vote_avg"),
     TMDBPopularity |-> parseFloat(row, idx, "tmdb_popularity"),
     TMDBGenres     |-> parseString(row, idx, "tmdb_genres"),
     TMDBPosterPath |-> parseString(row, idx, "tmdb_poster_path"),
     TMDBOverview   |-> parseString(row, idx, "tmdb_overview"),
     TMDBRelease    |-> parseString(row, idx, "tmdb_release_date")]

\* The UserFeatures literal loadUsersCSV appends for one row.
userOfRow(row, idx) ==
    [UserID      |-> parseInt(row, idx, "userId"),
     RatingMean  |-> parseFloat(row, idx, "rating_mean"),
     RatingCount |-> parseInt(row, idx, "rating_count")]

\* The read loop of both loaders: [err, rows], the records appended until
\* the end of the file, or the first error that is not csv.ErrFieldCount.
RECURSIVE readRows(_, _)
readRows(records, acc) ==
    IF records = <<>> THEN [err |-> "", rows |-> acc]
    ELSE LET r == Head(records)
         IN  IF r.err = "" THEN readRows(Tail(records), Append(acc, r.fields))
             ELSE IF r.err = "ErrFieldCount" THEN readRows(Tail(records), acc)
             ELSE [err |-> r.err, rows |-> <<>>]

requiredMovieColumns == <<"movieId", "title", "rating_mean", "rating_count">>
requiredUserColumns == <<"userId", "rating_mean", "rating_count">>

\* variant: the header is not checked for the required columns
loadCSVUnchecked(file, required) ==
    LET failed(err) == [err |-> err, idx |-> headerIndex(<<>>), rows |-> <<>>]
    IN  IF ~file.exists THEN failed("open")
        ELSE IF file.records = <<>> THEN failed("EOF")
        ELSE IF Head(file.records).err # "" THEN failed(Head(file.records).err)
        ELSE LET idx == headerIndex(Head(file.records).fields)
                 read == readRows(Tail(file.records), <<>>)
             IN  IF read.err # "" THEN failed(read.err)
                 ELSE [err |-> "", idx |-> idx, rows |-> read.rows]

\* What loadMoviesCSV and loadUsersCSV share: opening the file, reading
\* the header, checking the required columns, and the read loop.
\* [err, idx, rows]
loadCSV(file, required) ==
    LET failed(err) == [err |-> err, idx |-> headerIndex(<<>>), rows |-> <<>>]
    IN  IF ~file.exists THEN failed("open")
        ELSE IF file.records = <<>> THEN failed("EOF")
        ELSE IF Head(file.records).err # "" THEN failed(Head(file.records).err)
        ELSE LET idx == headerIndex(Head(file.records).fields)
             IN  IF \E i \in 1..Len(required) : required[i] \notin DOMAIN idx
                 THEN failed("missing column")
                 ELSE LET read == readRows(Tail(file.records), <<>>)
                      IN  IF read.err # "" THEN failed(read.err)
                          ELSE [err |-> "", idx |-> idx, rows |-> read.rows]

\* func loadMoviesCSV(path string) ([]Movie, error): [err, list]
loadMoviesCSV(file) ==
    LET csv == loadCSV(file, requiredMovieColumns)
    IN  [err |-> csv.err,
         list |-> [i \in 1..Len(csv.rows) |-> movieOfRow(csv.rows[i], csv.idx)]]

\* func loadUsersCSV(path string) ([]UserFeatures, error): [err, list]
loadUsersCSV(file) ==
    LET csv == loadCSV(file, requiredUserColumns)
    IN  [err |-> csv.err,
         list |-> [i \in 1..Len(csv.rows) |-> userOfRow(csv.rows[i], csv.idx)]]

\* The maps LoadData fills from the lists, by m.MovieID and by u.UserID:
\* of the elements with one key, the last is the one kept.
\* variant: the map is keyed by the position in the list
moviesByIDByPosition(movies) == [i \in 1..Len(movies) |-> movies[i]]

\* variant: the first record with an id is kept
moviesByIDKeepsFirst(movies) ==
    [id \in {movies[i].MovieID : i \in 1..Len(movies)} |->
        movies[CHOOSE i \in 1..Len(movies) :
                  /\ movies[i].MovieID = id
                  /\ \A j \in 1..(i - 1) : movies[j].MovieID # id]]

moviesByID(movies) ==
    [id \in {movies[i].MovieID : i \in 1..Len(movies)} |->
        movies[CHOOSE i \in 1..Len(movies) :
                  /\ movies[i].MovieID = id
                  /\ \A j \in (i + 1)..Len(movies) : movies[j].MovieID # id]]

usersByID(users) ==
    [id \in {users[i].UserID : i \in 1..Len(users)} |->
        users[CHOOSE i \in 1..Len(users) :
                 /\ users[i].UserID = id
                 /\ \A j \in (i + 1)..Len(users) : users[j].UserID # id]]

(***************************************************************************)
(* Scoring.  Tenths(x) is a tenths value in units; Weighted(w, x) is       *)
(* w * x for a weight w held in thousandths.  Comparisons of float64       *)
(* values are comparisons of the decimal values they stand for.            *)
(***************************************************************************)
Tenths(x) == x * (Unit \div 10)
Weighted(w, x) == (w * x) \div 1000

\* math.Log1p on the rating counts of the modelled tables, in ten-thousandths
Log1pTable ==
    (0 :> 0) @@ (1 :> 6931) @@ (5 :> 17917) @@ (10 :> 23978) @@
    (999 :> 69077) @@ (1000 :> 69087) @@ (1200 :> 70909) @@ (1500 :> 73138)

Log1p(n) == Log1pTable[n]

\* App.ScoreWeights as main sets it, in thousandths
ScoreWeights ==
    [VoteAvg |-> 150, Pop |-> 20, CountLog |-> 500, UserBias |-> 1000, MeanBias |-> 1000]

\* App.PosterBase as main sets it, kept as one piece
PosterBase == <<"https://image.tmdb.org/t/p/w342">>

\* func joinPosterURL(base, path string) string
joinPosterURL(base, path) == IF path = <<>> THEN <<>> ELSE base \o path

\* variant: a missing user is scored as a user of mean 0 with no bias term
scoreMoviePenaliseMissingUser(m, user) ==
    Tenths(m.RatingMean)
    + Weighted(ScoreWeights.VoteAvg, Tenths(m.TMDBVoteAvg))
    + Weighted(ScoreWeights.Pop, Tenths(m.TMDBPopularity))
    + Weighted(ScoreWeights.CountLog, Log1p(m.RatingCount))
    + (IF user # Nil
       THEN Weighted(ScoreWeights.UserBias, Tenths(user[1].RatingMean))
            - Weighted(ScoreWeights.MeanBias, Tenths(Abs(m.RatingMean - user[1].RatingMean)))
       ELSE - Weighted(ScoreWeights.MeanBias, Tenths(Abs(m.RatingMean))))

\* func (a *App) scoreMovie(m Movie, user *UserFeatures) float64
scoreMovie(m, user) ==
    Tenths(m.RatingMean)
    + Weighted(ScoreWeights.VoteAvg, Tenths(m.TMDBVoteAvg))
    + Weighted(ScoreWeights.Pop, Tenths(m.TMDBPopularity))
    + Weighted(ScoreWeights.CountLog, Log1p(m.RatingCount))
    + (IF user # Nil
       THEN Weighted(ScoreWeights.UserBias, Tenths(user[1].RatingMean))
            - Weighted(ScoreWeights.MeanBias, Tenths(Abs(m.RatingMean - user[1].RatingMean)))
       ELSE 0)

\* func buildReasons(m Movie, user *UserFeatures) []string
\* math.Abs(x-y) <= bound in float64, for x and y of one decimal place
\* between 0.0 and 5.0 and a bound of 0.3 or 0.5, all in tenths.  The
\* nearest float64 values of two such decimals that are exactly the bound
\* apart can be further apart than the float64 value of the bound: 4.2 - 3.9
\* is 0.30000000000000027.  RoundsAbove lists, per bound, the smaller
\* member of each pair for which that happens.
RoundsAbove ==
    (3 :> {1, 5, 6, 7, 8, 10, 12, 13, 14, 15, 17, 18, 19, 23, 24, 28, 29, 33, 34,
           39, 41, 46})
    @@ (5 :> {6, 17, 39})

absDiffWithin(x, y, bound) ==
    \/ Abs(x - y) < bound
    \/ Abs(x - y) = bound /\ Min(x, y) \notin RoundsAbove[bound]

buildReasons(m, user) ==
    (IF m.TMDBVoteAvg >= 75 THEN <<"high_vote_avg">> ELSE <<>>)
    \o (IF m.RatingCount >= 1000 THEN <<"popular_in_movielens">> ELSE <<>>)
    \o (IF user # Nil /\ absDiffWithin(m.RatingMean, user[1].RatingMean, 5)
        THEN <<"matches_user_taste">> ELSE <<>>)

\* variant: "similar_genres" from a similarity of 0.3
buildMovieReasonsLooseGenres(seed, candidate) ==
    (IF genreSimilarity(seed, candidate) >= (3 * Unit) \div 10
     THEN <<"similar_genres">> ELSE <<>>)
    \o (IF absDiffWithin(seed.RatingMean, candidate.RatingMean, 3)
        THEN <<"similar_ratings">> ELSE <<>>)
    \o (IF candidate.RatingCount >= 1000 THEN <<"popular_in_movielens">> ELSE <<>>)

\* func buildMovieReasons(seed Movie, candidate Movie) []string
buildMovieReasons(seed, candidate) ==
    (IF genreSimilarity(seed, candidate) >= (4 * Unit) \div 10
     THEN <<"similar_genres">> ELSE <<>>)
    \o (IF absDiffWithin(seed.RatingMean, candidate.RatingMean, 3)
        THEN <<"similar_ratings">> ELSE <<>>)
    \o (IF candidate.RatingCount >= 1000 THEN <<"popular_in_movielens">> ELSE <<>>)

\* func scoreMovieSimilarity(seed Movie, candidate Movie) float64
scoreMovieSimilarity(seed, candidate) ==
    2 * genreSimilarity(seed, candidate)
    + (Unit - Tenths(Abs(seed.RatingMean - candidate.RatingMean)) \div 5)
    + (IF seed.TMDBVoteAvg > 0 /\ candidate.TMDBVoteAvg > 0
       THEN (8 * Unit) \div 10 - Tenths(Abs(seed.TMDBVoteAvg - candidate.TMDBVoteAvg)) \div 10
       ELSE 0)
    + Weighted(150, Log1p(candidate.RatingCount))

(***************************************************************************)
(* sort.Slice.  The sort is not stable: it returns some permutation of the *)
(* slice in which no element is less than one before it, and which one is  *)
(* the library's choice.                                                   *)
(***************************************************************************)
\* the less function of the three sorts: scoredMovies[i].Score > scoredMovies[j].Score
scoredLess(x, y) == x.Score > y.Score

\* variant: the slice is left as it is
sortSliceKeepsOrder(s) == {s}

sortSlice(s) ==
    { t \in { [i \in 1..Len(s) |-> s[p[i]]] : p \in Permutations(1..Len(s)) } :
        \A i, j \in 1..Len(s) : i < j => ~scoredLess(t[j], t[i]) }

\* variant: k is never applied
truncateNever(k, n) == n
\* if k > len(scoredMovies) { k = len(scoredMovies) }
truncate(k, n) == IF k > n THEN n ELSE k

\* func (a *App) rankMovies(user *UserFeatures, k int) []RankResult: the
\* results it can return
rankMovies(user, k) ==
    LET scoredMovies ==
            [i \in 1..Len(Movies) |->
                [Movie |-> Movies[i], Score |-> scoreMovie(Movies[i], user)]]
    IN  { [i \in 1..truncate(k, Len(sorted)) |->
              [MovieID   |-> sorted[i].Movie.MovieID,
               Score     |-> sorted[i].Score,
               Title     |-> sorted[i].Movie.Title,
               PosterURL |-> joinPosterURL(PosterBase, sorted[i].Movie.TMDBPosterPath),
               Reasons   |-> buildReasons(sorted[i].Movie, user)]] :
          sorted \in sortSlice(scoredMovies) }

\* the scan of rankMoviesByMovie over a.Movies: every m but those with the
\* seed's id, in order
RECURSIVE scanCandidates(_, _)
scanCandidates(movies, seed) ==
    IF movies = <<>> THEN <<>>
    ELSE IF Head(movies).MovieID = seed.MovieID THEN scanCandidates(Tail(movies), seed)
    ELSE <<Head(movies)>> \o scanCandidates(Tail(movies), seed)

\* variant: only the first row equal to the seed is left out
similarCandidatesSkipFirst(seed) ==
    IF \E i \in 1..Len(Movies) : Movies[i] = seed
    THEN LET at == CHOOSE i \in 1..Len(Movies) :
                       Movies[i] = seed /\ \A j \in 1..(i - 1) : Movies[j] # seed
         IN  SubSeq(Movies, 1, at - 1) \o SubSeq(Movies, at + 1, Len(Movies))
    ELSE Movies

similarCandidates(seed) == scanCandidates(Movies, seed)

\* func (a *App) rankMoviesByMovie(seed Movie, k int) []RankResult: the
\* results it can return
rankMoviesByMovie(seed, k) ==
    LET cands == similarCandidates(seed)
        scoredMovies ==
            [i \in 1..Len(cands) |->
                [Movie |-> cands[i], Score |-> scoreMovieSimilarity(seed, cands[i])]]
    IN  { [i \in 1..truncate(k, Len(sorted)) |->
              [MovieID   |-> sorted[i].Movie.MovieID,
               Score     |-> sorted[i].Score,
               Title     |-> sorted[i].Movie.Title,
               PosterURL |-> joinPosterURL(PosterBase, sorted[i].Movie.TMDBPosterPath),
               Reasons   |-> buildMovieReasons(seed, sorted[i].Movie)]] :
          sorted \in sortSlice(scoredMovies) }

(***************************************************************************)
(* Title search.                                                           *)
(***************************************************************************)
\* func stripYear(title string) string
stripYear(title) ==
    LET trimmed == TrimSpace(title)
    IN  IF Len(trimmed) >= 7 /\ HasSuffix(trimmed, <<")">>)
        THEN LET idx == LastIndex(trimmed, <<"(">>)
             IN  IF idx > 0 THEN TrimSpace(SubSeq(trimmed, 1, idx)) ELSE trimmed
        ELSE trimmed

\* the body of the loop of searchMovies: the score of m before the test
\* score == 0, and the score appended for a movie that passes it
searchMatchScore(m, q) ==
    LET title == ToLower(stripYear(m.Title))
    IN  (IF HasPrefix(title, q) THEN 3 * Unit ELSE 0)
        + (IF Contains(title, q) THEN Unit ELSE 0)

\* variant: the rating count is left out of the score
searchScoreMatchOnly(m, q) == searchMatchScore(m, q)

searchScore(m, q) == searchMatchScore(m, q) + Weighted(100, Log1p(m.RatingCount))

\* the loop of searchMovies over a.Movies: the scored matches, in order
RECURSIVE scanMatches(_, _)
scanMatches(movies, q) ==
    IF movies = <<>> THEN <<>>
    ELSE IF searchMatchScore(Head(movies), q) = 0 THEN scanMatches(Tail(movies), q)
    ELSE <<[Movie |-> Head(movies), Score |-> searchScore(Head(movies), q)]>>
         \o scanMatches(Tail(movies), q)

\* variant: a blank query is searched for like any other
searchMoviesBlankSearched(query, limit) ==
    LET q == ToLower(TrimSpace(query))
        scoredMovies == scanMatches(Movies, q)
    IN  { [i \in 1..truncate(limit, Len(sorted)) |->
              [MovieID |-> sorted[i].Movie.MovieID,
               Title   |-> sorted[i].Movie.Title]] :
          sorted \in sortSlice(scoredMovies) }

\* func (a *App) searchMovies(query string, limit int) []SearchResult: the
\* results it can return
searchMovies(query, limit) ==
    LET q == ToLower(TrimSpace(query))
        scoredMovies == scanMatches(Movies, q)
    IN  IF q = <<>> THEN {<<>>}
        ELSE { [i \in 1..truncate(limit, Len(sorted)) |->
                   [MovieID |-> sorted[i].Movie.MovieID,
                    Title   |-> sorted[i].Movie.Title]] :
               sorted \in sortSlice(scoredMovies) }

(***************************************************************************)
(* The input files.                                                        *)
(***************************************************************************)
MovieHeader ==
    <<"movieId", "title", "genres", "rating_mean", "rating_count", "tmdb_vote_avg",
      "tmdb_popularity", "tmdb_genres", "tmdb_poster_path", "tmdb_overview",
      "tmdb_release_date">>

UserHeader == <<"userId", "rating_mean", "rating_count">>

Record(fields) == [err |-> "", fields |-> fields]

\* movie 1 of the similarity scenario
RowFightClub ==
    <<<<"1">>,
      <<"F","i","g","h","t"," ","C","l","u","b"," ","(","1","9","9","9",")">>,
      <<"D","r","a","m","a","|","T","h","r","i","l","l","e","r">>,
      <<"4",".","2">>,
      <<"1","5","0","0">>,
      <<"8",".","4">>,
      <<>>,
      <<>>,
      <<>>,
      <<>>,
      <<>>>>

\* movie 2 of the similarity scenario
RowSe7en ==
    <<<<"2">>,
      <<"S","e","7","e","n"," ","(","1","9","9","5",")">>,
      <<"D","r","a","m","a","|","M","y","s","t","e","r","y">>,
      <<"4",".","0">>,
      <<"1","2","0","0">>,
      <<"8",".","1">>,
      <<>>,
      <<>>,
      <<>>,
      <<>>,
      <<>>>>

\* a second row with id 2, its genres in tmdb_genres only, and the numbers of
\* RowFightClub, so that the two tie in the user-anchored score and in the
\* search for a text both titles hold; its title ends with a parenthesis
\* that is not a year
RowSevenAgain ==
    <<<<"2">>,
      <<"C","l","u","b"," ","S","e","7","e","n"," ","(","S","e","v","e","n",")">>,
      <<>>,
      <<"4",".","2">>,
      <<"1","5","0","0">>,
      <<"8",".","4">>,
      <<>>,
      <<" ","d","r","a","m","a"," ","|"," ","T","H","R","I","L","L","E","R">>,
      <<"/","s",".","j","p","g">>,
      <<>>,
      <<"1","9","9","5">>>>

\* a little-rated movie with no vote average
RowMatrix ==
    <<<<"3">>,
      <<"M","a","t","r","i","x",","," ","T","h","e"," ","(","1","9","9","9",")">>,
      <<"A","c","t","i","o","n","|","S","c","i","-","F","i">>,
      <<"3",".","0">>,
      <<"5">>,
      <<>>,
      <<"1","2",".","5">>,
      <<>>,
      <<"/","m",".","j","p","g">>,
      <<>>,
      <<>>>>

RowCatalog == {RowFightClub, RowSe7en, RowSevenAgain, RowMatrix}

SeqsUpTo(S, n) == UNION { [1..m -> S] : m \in 0..n }

CSVFile(header, rows) ==
    [exists |-> TRUE,
     records |-> <<Record(header)>> \o [i \in 1..Len(rows) |-> Record(rows[i])]]

MissingFile == [exists |-> FALSE, records |-> <<>>]
EmptyFile == [exists |-> TRUE, records |-> <<>>]

\* a movie table without its title column
UntitledMovieFile ==
    CSVFile(<<"movieId", "genres", "rating_mean", "rating_count">>,
            << <<<<"1">>,<<"D","r","a","m","a">>,<<"4",".","2">>,<<"1","5","0","0">>>> >>)

\* a movie table whose second data record the reader cannot parse
BrokenMovieFile ==
    [exists |-> TRUE,
     records |-> <<Record(MovieHeader), Record(RowFightClub),
                   [err |-> "ErrQuote", fields |-> <<>>]>>]

\* a row of two fields and a row of twelve under the header of eleven: the
\* reader, its FieldsPerRecord being -1, returns both without an error
RowShort == <<<<"7">>, <<"S","h","o","r","t">>>>
RowLong == RowMatrix \o <<<<"e","x","t","r","a">>>>

RaggedMovieFile == CSVFile(MovieHeader, <<RowFightClub, RowShort, RowLong>>)

\* a table without the column col of its header
Without(s, at) == SubSeq(s, 1, at - 1) \o SubSeq(s, at + 1, Len(s))
WithoutColumn(header, rows, col) ==
    LET at == CHOOSE i \in 1..Len(header) : header[i] = col
    IN  CSVFile(Without(header, at), [i \in 1..Len(rows) |-> Without(rows[i], at)])

\* the movie tables that lack one required column
SchemaBadMovieFiles ==
    { WithoutColumn(MovieHeader, <<RowFightClub, RowMatrix>>, requiredMovieColumns[i]) :
        i \in 1..Len(requiredMovieColumns) }

\* a movie table of the required columns alone, in another order, with a
\* row of numbers, a row of blank numeric fields and a row of numeric
\* fields that are not numbers
MinimalMovieFile ==
    CSVFile(<<"title", "rating_count", "movieId", "rating_mean">>,
            << << <<"H","e","a","t">>, <<" ","1","0">>, <<"5">>, <<"3",".","5"," ">> >>,
               << <<"B","l","a","n","k">>, <<>>, <<"6">>, <<" ">> >>,
               << <<" ","B","a","d">>, <<"l","o","t","s">>, <<"x","7">>, <<"4",",","2">> >> >>)

\* a movie table of the required columns whose two rows have a movieId that
\* is not a number
UnparsedIDsMovieFile ==
    CSVFile(<<"movieId", "title", "rating_mean", "rating_count">>,
            << << <<"x","7">>, <<"A","l","p","h","a">>, <<"3",".","5">>, <<"1","0">> >>,
               << <<>>, <<"O","m","e","g","a">>, <<"4",".","0">>, <<"5">> >> >>)

\* a row whose optional numeric fields are not numbers
RowNoisy ==
    <<<<"8">>,
      <<"N","o","i","s","y">>,
      <<"D","r","a","m","a">>,
      <<"+","4",".","0">>,
      <<"1",".","5">>,
      <<"n","/","a">>,
      <<"-">>,
      <<>>,
      <<>>,
      <<"x">>,
      <<>>>>

NoisyMovieFile == CSVFile(MovieHeader, <<RowNoisy, RowFightClub>>)

\* three movies at the thresholds of the reason tags: vote averages 7.5 and
\* 7.4, rating counts 1000 and 999, means 0.3 apart (3.9 and 4.2, 3.6 and
\* 3.9) and genre lists that share 2 names of 5
RowEdge ==
    <<<<"1">>,
      <<"E","d","g","e"," ","(","2","0","0","1",")">>,
      <<"D","r","a","m","a","|","C","r","i","m","e","|","W","a","r">>,
      <<"3",".","9">>,
      <<"1","0","0","0">>,
      <<"7",".","5">>,
      <<>>,
      <<>>,
      <<>>,
      <<>>,
      <<>>>>

RowBrink ==
    <<<<"2">>,
      <<"B","r","i","n","k"," ","(","2","0","0","2",")">>,
      <<"D","r","a","m","a","|","C","r","i","m","e","|","N","o","i","r","|","S","p","y">>,
      <<"4",".","2">>,
      <<"9","9","9">>,
      <<"7",".","4">>,
      <<>>,
      <<>>,
      <<>>,
      <<>>,
      <<>>>>

RowVerge ==
    <<<<"3">>,
      <<"V","e","r","g","e"," ","(","2","0","0","3",")">>,
      <<"N","o","i","r","|","S","p","y">>,
      <<"3",".","6">>,
      <<"1","0","0","0">>,
      <<>>,
      <<>>,
      <<>>,
      <<>>,
      <<>>,
      <<>>>>

ThresholdMovieFile == CSVFile(MovieHeader, <<RowEdge, RowBrink, RowVerge>>)

\* a movie table without the optional column genres
NoGenresMovieFile == WithoutColumn(MovieHeader, <<RowMatrix, RowFightClub>>, "genres")

MovieFiles ==
    { CSVFile(MovieHeader, rows) : rows \in SeqsUpTo(RowCatalog, MaxRows) }
    \cup {MissingFile, EmptyFile, UntitledMovieFile, BrokenMovieFile, RaggedMovieFile,
          MinimalMovieFile, NoisyMovieFile, NoGenresMovieFile, ThresholdMovieFile}
    \cup SchemaBadMovieFiles

\* users 1 (mean 4.0) and 2 (mean 3.0)
TwoUsersFile ==
    CSVFile(UserHeader,
            << <<<<"1">>,<<"4",".","0">>,<<"1","0">>>>,
               <<<<"2">>,<<"3",".","0">>,<<"5">>>> >>)

UserFiles == {TwoUsersFile, CSVFile(UserHeader, <<>>), MissingFile}

\* the user tables that lack one required column, and one whose second row
\* has a blank mean and a count that is not a number
SchemaBadUserFiles ==
    { WithoutColumn(UserHeader,
                    << <<<<"1">>,<<"4",".","0">>,<<"1","0">>>>,
                       <<<<"2">>,<<"3",".","0">>,<<"5">>>> >>,
                    requiredUserColumns[i]) :
        i \in 1..Len(requiredUserColumns) }

NoisyUsersFile ==
    CSVFile(UserHeader,
            << <<<<"1">>,<<"4",".","0">>,<<"1","0">>>>,
               <<<<"2">>,<<>>,<<"m","a","n","y">>>> >>)

\* user 1 with a mean 0.5 above that of RowEdge, user 2 with one 0.5 below
\* that of RowVerge
ThresholdUsersFile ==
    CSVFile(UserHeader,
            << <<<<"1">>,<<"4",".","4">>,<<"1","0">>>>,
               <<<<"2">>,<<"3",".","1">>,<<"5">>>> >>)

\* the two files of a data directory: every movie table with the plain user
\* tables, and a few movie tables with the other user tables
FilePairs ==
    (MovieFiles \X UserFiles)
    \cup ({CSVFile(MovieHeader, <<RowFightClub, RowSe7en>>), MinimalMovieFile,
           UntitledMovieFile, EmptyFile}
          \X (SchemaBadUserFiles \cup {NoisyUsersFile}))
    \cup {<<ThresholdMovieFile, ThresholdUsersFile>>,
          <<UnparsedIDsMovieFile, TwoUsersFile>>}

(***************************************************************************)
(* func (a *App) LoadData() error                                          *)
(***************************************************************************)
\* variant: the lists are installed whatever their lengths
loadDataInstallsEmpty ==
    LET m == loadMoviesCSV(moviesFile)
        u == loadUsersCSV(usersFile)
        none == [err |-> "", install |-> FALSE, movies |-> <<>>, users |-> <<>>]
    IN  IF m.err # "" THEN [none EXCEPT !.err = m.err]
        ELSE IF u.err # "" THEN [none EXCEPT !.err = u.err]
        ELSE [err |-> IF Len(m.list) = 0 \/ Len(u.list) = 0
                      THEN "loaded empty data" ELSE "",
              install |-> TRUE, movies |-> m.list, users |-> u.list]

\* [err, install, movies, users]: the error returned and, when the store is
\* assigned, the two lists it is assigned from
loadData ==
    LET m == loadMoviesCSV(moviesFile)
        u == loadUsersCSV(usersFile)
        none == [err |-> "", install |-> FALSE, movies |-> <<>>, users |-> <<>>]
    IN  IF m.err # "" THEN [none EXCEPT !.err = m.err]
        ELSE IF u.err # "" THEN [none EXCEPT !.err = u.err]
        ELSE IF Len(m.list) = 0 \/ Len(u.list) = 0
             THEN [none EXCEPT !.err = "loaded empty data"]
        ELSE [err |-> "", install |-> TRUE, movies |-> m.list, users |-> u.list]

\* main: the call of LoadData before the server listens; an error is logged
\* and the server starts all the same
LoadData ==
    /\ pc = "boot"
    /\ pc' = "serving"
    /\ loadErr' = loadData.err
    /\ IF loadData.install
       THEN /\ Movies' = loadData.movies
            /\ MoviesByID' = moviesByID(loadData.movies)
            /\ UsersByID' = usersByID(loadData.users)
       ELSE UNCHANGED <<Movies, MoviesByID, UsersByID>>
    /\ UNCHANGED <<moviesFile, usersFile, req, call, resp, probe, inflight>>

(***************************************************************************)
(* func (a *App) handleRank(w http.ResponseWriter, r *http.Request)        *)
(***************************************************************************)
DefaultK == 25

\* A request to /rank: its method, whether its body decodes into a
\* RankRequest, and the body's three optional members.
RankBodies ==
    [user_id : {Nil, Ptr(0), Ptr(1), Ptr(9)},
     movie_id : {Nil, Ptr(0), Ptr(1), Ptr(2), Ptr(3)},
     k : {Nil} \cup { Ptr(n) : n \in -1..MaxK }]

NoBody == [user_id |-> Nil, movie_id |-> Nil, k |-> Nil]

RankRequests ==
    { [path |-> "/rank", method |-> "POST", json |-> TRUE, body |-> b] : b \in RankBodies }
    \cup { [path |-> "/rank", method |-> "POST", json |-> FALSE, body |-> NoBody],
           [path |-> "/rank", method |-> "GET", json |-> TRUE, body |-> NoBody],
           [path |-> "/rank", method |-> "OPTIONS", json |-> TRUE, body |-> NoBody] }

NoRequest == [path |-> "", method |-> "", json |-> FALSE, body |-> NoBody]
NoCall == [fn |-> "none", k |-> 0, seed |-> Nil, user |-> Nil]

\* what writeJSON sends: the status and, of the payload, the error text or
\* the RankResponse members
Response(status, error, userID, movieID, results) ==
    [status |-> status, error |-> error, UserID |-> userID, MovieID |-> movieID,
     Results |-> results]

ErrorResponse(status, error) == Response(status, error, 0, 0, <<>>)
NoResponse == ErrorResponse(0, "")

\* json decoding of the member k into RankRequest.K: an absent member leaves 0
decodeK(body) == IF body.k = Nil THEN 0 ELSE body.k[1]

\* variant: a k of 0 is kept
effectiveKNegativeOnly(k) == IF k < 0 THEN DefaultK ELSE k

\* if req.K <= 0 { req.K = 25 }
effectiveK(k) == IF k <= 0 THEN DefaultK ELSE k

\* variant: user_id is tested before movie_id
anchorOfUserFirst(userID, movieID) ==
    IF userID = Nil /\ movieID = Nil THEN "required"
    ELSE IF userID # Nil /\ userID[1] > 0 THEN "user"
    ELSE IF movieID # Nil /\ movieID[1] > 0 THEN "movie"
    ELSE "invalid"

\* the branch handleRank takes on req.UserID and req.MovieID
anchorOf(userID, movieID) ==
    IF userID = Nil /\ movieID = Nil THEN "required"
    ELSE IF movieID # Nil /\ movieID[1] > 0 THEN "movie"
    ELSE IF userID # Nil /\ userID[1] > 0 THEN "user"
    ELSE "invalid"

\* variant: ok is not looked at, a missing seed is the first movie
lookupMovieOrFirst(id) ==
    IF id \in DOMAIN MoviesByID THEN Ptr(MoviesByID[id])
    ELSE IF Movies = <<>> THEN Nil
    ELSE Ptr(Movies[1])

\* seed, ok := a.MoviesByID[id]: Nil when !ok
lookupMovie(id) == IF id \in DOMAIN MoviesByID THEN Ptr(MoviesByID[id]) ELSE Nil

\* user, ok := a.UsersByID[id]; userPtr is &user when ok, nil otherwise
lookupUser(id) == IF id \in DOMAIN UsersByID THEN Ptr(UsersByID[id]) ELSE Nil

\* variant: the body is decoded before the store is looked at
handleRankDecodesFirst(r) ==
    LET none(status, error) == {[resp |-> ErrorResponse(status, error), call |-> NoCall]}
        K == effectiveK(decodeK(r.body))
        anchor == anchorOf(r.body.user_id, r.body.movie_id)
    IN  IF r.method = "OPTIONS" THEN none(204, "")
        ELSE IF r.method # "POST" THEN none(405, "POST required")
        ELSE IF ~r.json THEN none(400, "invalid json")
        ELSE IF Len(Movies) = 0 THEN none(503, "no data loaded")
        ELSE IF anchor = "required" THEN none(400, "user_id or movie_id required")
        ELSE IF anchor = "movie"
             THEN LET seed == lookupMovie(r.body.movie_id[1])
                  IN  IF seed = Nil THEN none(404, "movie not found")
                      ELSE { [resp |-> Response(200, "", 0, r.body.movie_id[1], results),
                              call |-> [fn |-> "rankMoviesByMovie", k |-> K,
                                        seed |-> seed, user |-> Nil]] :
                             results \in rankMoviesByMovie(seed[1], K) }
        ELSE IF anchor = "user"
             THEN LET userPtr == lookupUser(r.body.user_id[1])
                  IN  { [resp |-> Response(200, "", r.body.user_id[1], 0, results),
                         call |-> [fn |-> "rankMovies", k |-> K,
                                   seed |-> Nil, user |-> userPtr]] :
                        results \in rankMovies(userPtr, K) }
        ELSE none(400, "invalid user_id or movie_id")

\* the responses handleRank can write to request r, each with the ranker call made
handleRank(r) ==
    LET none(status, error) == {[resp |-> ErrorResponse(status, error), call |-> NoCall]}
        K == effectiveK(decodeK(r.body))
        anchor == anchorOf(r.body.user_id, r.body.movie_id)
    IN  IF r.method = "OPTIONS" THEN none(204, "")
        ELSE IF r.method # "POST" THEN none(405, "POST required")
        ELSE IF Len(Movies) = 0 THEN none(503, "no data loaded")
        ELSE IF ~r.json THEN none(400, "invalid json")
        ELSE IF anchor = "required" THEN none(400, "user_id or movie_id required")
        ELSE IF anchor = "movie"
             THEN LET seed == lookupMovie(r.body.movie_id[1])
                  IN  IF seed = Nil THEN none(404, "movie not found")
                      ELSE { [resp |-> Response(200, "", 0, r.body.movie_id[1], results),
                              call |-> [fn |-> "rankMoviesByMovie", k |-> K,
                                        seed |-> seed, user |-> Nil]] :
                             results \in rankMoviesByMovie(seed[1], K) }
        ELSE IF anchor = "user"
             THEN LET userPtr == lookupUser(r.body.user_id[1])
                  IN  { [resp |-> Response(200, "", r.body.user_id[1], 0, results),
                         call |-> [fn |-> "rankMovies", k |-> K,
                                   seed |-> Nil, user |-> userPtr]] :
                        results \in rankMovies(userPtr, K) }
        ELSE none(400, "invalid user_id or movie_id")

HandleRank ==
    /\ pc = "serving"
    /\ \E r \in RankRequests :
         \E out \in handleRank(r) :
            /\ req' = r
            /\ resp' = out.resp
            /\ call' = out.call
    /\ pc' = "responded"
    /\ UNCHANGED <<moviesFile, usersFile, Movies, MoviesByID, UsersByID, loadErr, probe,
                   inflight>>

(***************************************************************************)
(* func (a *App) handleSearch(w http.ResponseWriter, r *http.Request)      *)
(***************************************************************************)
DefaultLimit == 10

\* the values of the URL parameter q ("" when the parameter is absent)
SearchQueries ==
    { <<>>, <<" ">>,
      <<"s","e","7","e","n">>,
      <<"m","a","t","r","i","x">>,
      <<" ","M","a","T","R","I","X"," ">>,
      <<"c","l","u","b">>,
      <<"E">>,
      <<"l">>,
      <<"s","e","v","e","n">>,
      <<"(","1","9","9">>,
      <<"z">> }

\* the values of the URL parameter limit ("" when the parameter is absent)
SearchLimits ==
    { <<>>, <<"1">>, <<"2">>, <<"5">>, <<"0">>, <<"-","1">>, <<"+","2">>, <<"t","w","o">> }

SearchRequests ==
    { [path |-> "/search", method |-> "GET", q |-> q, limit |-> l] :
        q \in SearchQueries, l \in SearchLimits }
    \cup { [path |-> "/search", method |-> m, q |-> <<"c","l","u","b">>, limit |-> <<>>] :
             m \in {"OPTIONS", "POST"} }

\* what writeJSON sends for /search: the status and the error text or the
\* array of SearchResult
SearchResponse(status, error, results) ==
    [status |-> status, error |-> error, Results |-> results]

\* variant: any limit that parses is taken
parseLimitAnyNumber(l) ==
    IF l # <<>> /\ Atoi(l).ok THEN Atoi(l).val ELSE DefaultLimit

\* limit := 10; the parameter replaces it when it parses to a positive number
parseLimit(l) ==
    IF l # <<>> /\ Atoi(l).ok /\ Atoi(l).val > 0 THEN Atoi(l).val ELSE DefaultLimit

\* the responses handleSearch can write to request r, each with the call of
\* searchMovies made
handleSearch(r) ==
    LET none(status, error) ==
            {[resp |-> SearchResponse(status, error, <<>>), call |-> NoCall]}
        query == TrimSpace(r.q)
        limit == parseLimit(r.limit)
    IN  IF r.method = "OPTIONS" THEN none(204, "")
        ELSE IF r.method # "GET" THEN none(405, "GET required")
        ELSE IF query = <<>> THEN none(400, "q required")
        ELSE { [resp |-> SearchResponse(200, "", results),
                call |-> [fn |-> "searchMovies", query |-> query, limit |-> limit]] :
               results \in searchMovies(query, limit) }

HandleSearch ==
    /\ pc = "serving"
    /\ \E r \in SearchRequests :
         \E out \in handleSearch(r) :
            /\ req' = r
            /\ resp' = out.resp
            /\ call' = out.call
    /\ pc' = "responded"
    /\ UNCHANGED <<moviesFile, usersFile, Movies, MoviesByID, UsersByID, loadErr, probe,
                   inflight>>

(***************************************************************************)
(* func (a *App) handleMovie(w http.ResponseWriter, r *http.Request)       *)
(***************************************************************************)
\* what follows "/movie/" in the path of a request
MoviePaths ==
    { <<>>, <<"0">>, <<"1">>, <<"2">>, <<"3">>, <<"9">>, <<"+","1">>, <<"-","1">>,
      <<"2","/","x">>, <<"i","d">> }

MovieRequests ==
    { [path |-> "/movie/", method |-> "GET", rest |-> p] : p \in MoviePaths }
    \cup { [path |-> "/movie/", method |-> m, rest |-> <<"1">>] : m \in {"OPTIONS", "POST"} }

\* what writeJSON sends for /movie/: the status and the error text or the Movie
MovieResponse(status, error, movie) ==
    [status |-> status, error |-> error, Movie |-> movie]

\* the response handleMovie writes to request r
handleMovie(r) ==
    LET parts == Split(r.rest, "/")
        id == Atoi(parts[1])
    IN  IF r.method = "OPTIONS" THEN MovieResponse(204, "", Nil)
        ELSE IF parts[1] = <<>> THEN MovieResponse(400, "movie id required", Nil)
        ELSE IF ~id.ok THEN MovieResponse(400, "invalid movie id", Nil)
        ELSE IF lookupMovie(id.val) = Nil THEN MovieResponse(404, "not found", Nil)
        ELSE MovieResponse(200, "", lookupMovie(id.val))

HandleMovie ==
    /\ pc = "serving"
    /\ \E r \in MovieRequests :
            /\ req' = r
            /\ resp' = handleMovie(r)
    /\ call' = NoCall
    /\ pc' = "responded"
    /\ UNCHANGED <<moviesFile, usersFile, Movies, MoviesByID, UsersByID, loadErr, probe,
                   inflight>>

(***************************************************************************)
(* func (a *App) handleHealth(w http.ResponseWriter, r *http.Request)      *)
(***************************************************************************)
HealthRequests ==
    { [path |-> "/health", method |-> m] : m \in {"GET", "POST", "OPTIONS"} }

\* what handleHealth sends: the status and the member status of the payload
HealthResponse(status, body) == [status |-> status, error |-> "", Status |-> body]

handleHealth(r) ==
    IF r.method = "OPTIONS" THEN HealthResponse(204, "") ELSE HealthResponse(200, "ok")

HandleHealth ==
    /\ pc = "serving"
    /\ \E r \in HealthRequests :
            /\ req' = r
            /\ resp' = handleHealth(r)
    /\ call' = NoCall
    /\ pc' = "responded"
    /\ UNCHANGED <<moviesFile, usersFile, Movies, MoviesByID, UsersByID, loadErr, probe,
                   inflight>>

\* http.ListenAndServe: the response is sent and the server takes the next
\* request; nothing of a request outlives it
AwaitRequest ==
    /\ pc = "responded"
    /\ pc' = "serving"
    /\ req' = NoRequest
    /\ call' = NoCall
    /\ resp' = NoResponse
    /\ UNCHANGED <<moviesFile, usersFile, Movies, MoviesByID, UsersByID, loadErr, probe,
                   inflight>>

(***************************************************************************)
(* The service: main loads the data once, then serves requests.            *)
(***************************************************************************)
EmptyMap == [id \in {} |-> 0]
ZeroMovie == movieOfRow(<<>>, headerIndex(<<>>))
NoProbe == [op |-> "none", a |-> ZeroMovie, b |-> ZeroMovie, out |-> 0]

\* a goroutine of the server that serves no request
Idle == [phase |-> "idle", req |-> NoRequest, seen |-> <<>>, resp |-> NoResponse]
NoneInFlight == [g \in 1..MaxInFlight |-> Idle]

Init ==
    /\ \E pair \in FilePairs :
          /\ moviesFile = pair[1]
          /\ usersFile = pair[2]
    /\ pc = "boot"
    /\ Movies = <<>>
    /\ MoviesByID = EmptyMap
    /\ UsersByID = EmptyMap
    /\ loadErr = ""
    /\ req = NoRequest
    /\ call = NoCall
    /\ resp = NoResponse
    /\ probe = NoProbe
    /\ inflight = NoneInFlight

Next ==
    \/ LoadData
    \/ HandleRank
    \/ HandleSearch
    \/ HandleMovie
    \/ HandleHealth
    \/ AwaitRequest

Spec == Init /\ [][Next]_vars

(***************************************************************************)
(* The service under concurrent requests.  http.ListenAndServe serves each *)
(* connection in a goroutine of its own, so handlers run interleaved.  A   *)
(* handler is taken in three steps: it is entered with the request, it     *)
(* computes its response from the store, and the response is sent.         *)
(***************************************************************************)
ServeFilePairs ==
    { <<CSVFile(MovieHeader, <<RowFightClub, RowSe7en>>), TwoUsersFile>>,
      <<CSVFile(MovieHeader, <<RowFightClub, RowSevenAgain, RowMatrix>>), TwoUsersFile>>,
      <<CSVFile(MovieHeader, <<RowFightClub>>), CSVFile(UserHeader, <<>>)>>,
      <<UntitledMovieFile, TwoUsersFile>> }

ServeRequests ==
    { [path |-> "/rank", method |-> "POST", json |-> TRUE,
       body |-> [user_id |-> Ptr(1), movie_id |-> Nil, k |-> Ptr(1)]],
      [path |-> "/rank", method |-> "POST", json |-> TRUE,
       body |-> [user_id |-> Nil, movie_id |-> Ptr(1), k |-> Nil]],
      [path |-> "/rank", method |-> "POST", json |-> TRUE,
       body |-> [user_id |-> Nil, movie_id |-> Ptr(9), k |-> Nil]],
      [path |-> "/rank", method |-> "POST", json |-> FALSE, body |-> NoBody],
      [path |-> "/rank", method |-> "GET", json |-> TRUE, body |-> NoBody],
      [path |-> "/search", method |-> "GET", q |-> <<"l">>, limit |-> <<>>],
      [path |-> "/search", method |-> "GET", q |-> <<" ">>, limit |-> <<"1">>],
      [path |-> "/movie/", method |-> "GET", rest |-> <<"1">>],
      [path |-> "/movie/", method |-> "GET", rest |-> <<"9">>],
      [path |-> "/health", method |-> "GET"] }

\* the three collections of the feature store
Store == <<Movies, MoviesByID, UsersByID>>

\* the mux: the responses the handler registered for the path of r can write
serve(r) ==
    IF r.path = "/rank" THEN { out.resp : out \in handleRank(r) }
    ELSE IF r.path = "/search" THEN { out.resp : out \in handleSearch(r) }
    ELSE IF r.path = "/movie/" THEN { handleMovie(r) }
    ELSE { handleHealth(r) }

InitServe ==
    /\ \E pair \in ServeFilePairs :
          /\ moviesFile = pair[1]
          /\ usersFile = pair[2]
    /\ pc = "boot"
    /\ Movies = <<>>
    /\ MoviesByID = EmptyMap
    /\ UsersByID = EmptyMap
    /\ loadErr = ""
    /\ req = NoRequest
    /\ call = NoCall
    /\ resp = NoResponse
    /\ probe = NoProbe
    /\ inflight = NoneInFlight

\* the server, listening after LoadData, hands a request to goroutine g
Enter(g) ==
    /\ pc = "serving"
    /\ inflight[g].phase = "idle"
    /\ \E r \in ServeRequests :
          inflight' = [inflight EXCEPT ![g] = [Idle EXCEPT !.phase = "entered", !.req = r]]
    /\ UNCHANGED <<moviesFile, usersFile, pc, Movies, MoviesByID, UsersByID, loadErr,
                   req, call, resp, probe>>

\* variant: a detail request that finds no movie empties the movie list
ComputeEvicting(g) ==
    /\ inflight[g].phase = "entered"
    /\ \E out \in serve(inflight[g].req) :
          /\ inflight' = [inflight EXCEPT ![g].phase = "computed", ![g].seen = Store,
                                          ![g].resp = out]
          /\ Movies' = (IF out.status = 404 THEN <<>> ELSE Movies)
    /\ UNCHANGED <<moviesFile, usersFile, pc, MoviesByID, UsersByID, loadErr,
                   req, call, resp, probe>>

\* the handler of goroutine g runs: it reads the store and computes its
\* response; no handler assigns a member of the store
Compute(g) ==
    /\ inflight[g].phase = "entered"
    /\ \E out \in serve(inflight[g].req) :
          inflight' = [inflight EXCEPT ![g].phase = "computed", ![g].seen = Store,
                                      ![g].resp = out]
    /\ UNCHANGED <<moviesFile, usersFile, pc, Movies, MoviesByID, UsersByID, loadErr,
                   req, call, resp, probe>>

\* writeJSON has sent the response and the handler returns
Return(g) ==
    /\ inflight[g].phase = "computed"
    /\ inflight' = [inflight EXCEPT ![g] = Idle]
    /\ UNCHANGED <<moviesFile, usersFile, pc, Movies, MoviesByID, UsersByID, loadErr,
                   req, call, resp, probe>>

NextServe ==
    \/ LoadData
    \/ \E g \in 1..MaxInFlight : Enter(g)
    \/ \E g \in 1..MaxInFlight : Compute(g)
    \/ \E g \in 1..MaxInFlight : Return(g)

SpecServe == InitServe /\ [][NextServe]_vars

(***************************************************************************)
(* genreSimilarity as a pure function: Init draws two movies that differ   *)
(* from the zero Movie in their two genre fields only, and the one action  *)
(* applies the function to them.                                           *)
(***************************************************************************)
GenreChars == {"D", "d", "t", "|", " "}
GenreStrings == SeqsUpTo(GenreChars, MaxGenreLen)

GenreMovie(genres, tmdbGenres) ==
    [ZeroMovie EXCEPT !.Genres = genres, !.TMDBGenres = tmdbGenres]

\* the first argument: every baseline string under a few enrichment
\* strings, and every enrichment string over one baseline string
GenreMoviesA ==
    { GenreMovie(g, t) : g \in GenreStrings, t \in {<<>>, <<" ">>, <<"|">>, <<"T">>} }
    \cup { GenreMovie(<<"d">>, t) : t \in GenreStrings }

\* the second argument, when it is not the first one again
GenreMoviesB ==
    { GenreMovie(g, t) :
        g \in {<<>>, <<"d">>, <<"t", "|", "D">>, <<" ", "|">>},
        t \in {<<>>, <<"T", "|", " ", "d", "D">>} }

InitGenre ==
    /\ moviesFile = MissingFile
    /\ usersFile = MissingFile
    /\ pc = "probe"
    /\ Movies = <<>>
    /\ MoviesByID = EmptyMap
    /\ UsersByID = EmptyMap
    /\ loadErr = ""
    /\ req = NoRequest
    /\ call = NoCall
    /\ resp = NoResponse
    /\ inflight = NoneInFlight
    /\ \E a \in GenreMoviesA : \E b \in GenreMoviesB \cup {a} :
          probe = [op |-> "input", a |-> a, b |-> b, out |-> 0]

ApplyGenreSimilarity ==
    /\ probe.op = "input"
    /\ probe' = [probe EXCEPT !.op = "genreSimilarity",
                              !.out = genreSimilarity(probe.a, probe.b)]
    /\ UNCHANGED <<moviesFile, usersFile, pc, Movies, MoviesByID, UsersByID, loadErr,
                   req, call, resp, inflight>>

NextGenre == ApplyGenreSimilarity

SpecGenre == InitGenre /\ [][NextGenre]_vars

(***************************************************************************)
(* Search as a function of the store and of its arguments: Init draws a    *)
(* store that LoadData leaves and a query with a limit, and the actions    *)
(* apply searchMovies and handleSearch to them.                            *)
(***************************************************************************)
InitSearch ==
    /\ moviesFile \in MovieFiles
    /\ usersFile = TwoUsersFile
    /\ pc = "probe"
    /\ Movies = loadData.movies
    /\ MoviesByID = moviesByID(loadData.movies)
    /\ UsersByID = (IF loadData.install THEN usersByID(loadData.users) ELSE EmptyMap)
    /\ loadErr = loadData.err
    /\ req = NoRequest
    /\ call = NoCall
    /\ resp = NoResponse
    /\ inflight = NoneInFlight
    /\ \E q \in SearchQueries : \E l \in SearchLimits :
          probe = [op |-> "input", a |-> q, b |-> l, out |-> <<>>]

ApplySearchMovies ==
    /\ probe.op = "input"
    /\ \E results \in searchMovies(probe.a, parseLimit(probe.b)) :
          probe' = [probe EXCEPT !.op = "searchMovies", !.out = results]
    /\ UNCHANGED <<moviesFile, usersFile, pc, Movies, MoviesByID, UsersByID, loadErr,
                   req, call, resp, inflight>>

ApplyHandleSearch ==
    /\ probe.op = "input"
    /\ \E out \in handleSearch([path |-> "/search", method |-> "GET",
                                 q |-> probe.a, limit |-> probe.b]) :
          probe' = [probe EXCEPT !.op = "handleSearch", !.out = out]
    /\ UNCHANGED <<moviesFile, usersFile, pc, Movies, MoviesByID, UsersByID, loadErr,
                   req, call, resp, inflight>>

NextSearch == ApplySearchMovies \/ ApplyHandleSearch

SpecSearch == InitSearch /\ [][NextSearch]_vars

(***************************************************************************)
(* Properties of the rank handler (under Spec).                            *)
(***************************************************************************)
\* handleRank has answered a POST whose body decoded, over a loaded store
Ranked ==
    /\ pc = "responded"
    /\ req.path = "/rank" /\ req.method = "POST" /\ req.json
    /\ Len(Movies) > 0

Served == Ranked /\ resp.status = 200

Positive(p) == p # Nil /\ p[1] > 0

\* the rows of the store whose id is not id
RowsOtherThan(id) == { i \in 1..Len(Movies) : Movies[i].MovieID # id }

ReasonSet(result) == { result.Reasons[i] : i \in 1..Len(result.Reasons) }

\* C1 as stated: every served ranking, user-anchored or movie-anchored,
\* holds min(K, N) results, N the number of movie records in the store.
C1_CountOverWholeStore ==
    Served => Len(resp.Results) = Min(call.k, Len(Movies))

\* C1 as amended: a served user-anchored ranking holds min(K, N) results, N
\* the number of movie records in the store; a served movie-anchored ranking
\* holds min(K, C) results, C the number of records whose id is not the
\* seed's.
C1_ResultCount ==
    Served =>
        /\ call.fn = "rankMovies" => Len(resp.Results) = Min(call.k, Len(Movies))
        /\ call.fn = "rankMoviesByMovie" =>
              Len(resp.Results) =
                  Min(call.k, Cardinality(RowsOtherThan(req.body.movie_id[1])))
        /\ call.fn \in {"rankMovies", "rankMoviesByMovie"}

\* a movie-anchored ranking with K below the store's size that the seed's
\* exclusion leaves with fewer than K results
C1_Witness ==
    /\ Served
    /\ call.fn = "rankMoviesByMovie"
    /\ call.k < Len(Movies)
    /\ Len(resp.Results) > 0
    /\ Len(resp.Results) < call.k

\* The two movies of the similarity scenario, as the store holds them.
ScenarioFightClub ==
    [ZeroMovie EXCEPT !.MovieID = 1, !.Title = <<"F","i","g","h","t"," ","C","l","u","b"," ","(","1","9","9","9",")">>,
                      !.Genres = <<"D","r","a","m","a","|","T","h","r","i","l","l","e","r">>,
                      !.RatingMean = 42, !.RatingCount = 1500, !.TMDBVoteAvg = 84]

ScenarioSe7en ==
    [ZeroMovie EXCEPT !.MovieID = 2, !.Title = <<"S","e","7","e","n"," ","(","1","9","9","5",")">>,
                      !.Genres = <<"D","r","a","m","a","|","M","y","s","t","e","r","y">>,
                      !.RatingMean = 40, !.RatingCount = 1200, !.TMDBVoteAvg = 81]

\* the scenario's request, movie_id 1 and k 1, answered over the scenario's store
ScenarioAnswered ==
    /\ Ranked
    /\ Len(Movies) = 2
    /\ {Movies[1], Movies[2]} = {ScenarioFightClub, ScenarioSe7en}
    /\ req.body = [user_id |-> Nil, movie_id |-> Ptr(1), k |-> Ptr(1)]

\* C2 as stated: the scenario returns exactly movie 2, tagged with
\* "similar_genres" and "popular_in_movielens".
C2_ScenarioSimilarGenres ==
    ScenarioAnswered =>
        /\ resp.status = 200
        /\ Len(resp.Results) = 1
        /\ resp.Results[1].MovieID = 2
        /\ {"similar_genres", "popular_in_movielens"} \subseteq ReasonSet(resp.Results[1])

\* C2 as amended: the scenario returns exactly movie 2, tagged with
\* "similar_ratings" and "popular_in_movielens" and not with "similar_genres":
\* the two genre sets share one name of three, a similarity of 1/3, below 0.4.
C2_Scenario ==
    ScenarioAnswered =>
        /\ resp.status = 200
        /\ Len(resp.Results) = 1
        /\ resp.Results[1].MovieID = 2
        /\ resp.Results[1].Title = ScenarioSe7en.Title
        /\ resp.Results[1].Reasons = <<"similar_ratings", "popular_in_movielens">>

C2_Witness == ScenarioAnswered /\ Len(resp.Results) = 1

C4_SeedExcluded ==
    (Served /\ Positive(req.body.movie_id)) =>
        \A i \in 1..Len(resp.Results) :
            resp.Results[i].MovieID # req.body.movie_id[1]

\* a movie-anchored ranking with results, over a store with two rows of the seed's id
C4_Witness ==
    /\ Served /\ Positive(req.body.movie_id)
    /\ Len(resp.Results) > 0
    /\ Len(Movies) - Cardinality(RowsOtherThan(req.body.movie_id[1])) >= 2

\* the score the ranker of the served request assigns to movie m
SelectedScore(m) ==
    IF call.fn = "rankMoviesByMovie" THEN scoreMovieSimilarity(call.seed[1], m)
    ELSE scoreMovie(m, call.user)

\* C5: the results of every served ranking are in non-increasing order of
\* score, and each result's score is the selected scorer's value for a
\* stored movie with the result's id and title.
C5_SortedByScore ==
    Served =>
        /\ \A i \in 1..(Len(resp.Results) - 1) :
              resp.Results[i].Score >= resp.Results[i + 1].Score
        /\ \A i \in 1..Len(resp.Results) :
              \E j \in 1..Len(Movies) :
                  /\ Movies[j].MovieID = resp.Results[i].MovieID
                  /\ Movies[j].Title = resp.Results[i].Title
                  /\ SelectedScore(Movies[j]) = resp.Results[i].Score

\* a ranking whose best result is not the store's first row and beats the second result
C5_Witness ==
    /\ Served
    /\ Len(resp.Results) >= 2
    /\ resp.Results[1].Score > resp.Results[2].Score
    /\ resp.Results[1].Title # Movies[1].Title
    /\ call.fn = "rankMovies"

\* C6: a rank request whose positive movie_id is no key of the loaded movie
\* table is answered 404 with no results and without a ranker being called,
\* whatever its k and whether or not it carries a user_id.
C6_UnknownSeedNotFound ==
    (Ranked /\ Positive(req.body.movie_id)
            /\ req.body.movie_id[1] \notin DOMAIN MoviesByID) =>
        /\ resp.status = 404
        /\ resp.error = "movie not found"
        /\ resp.Results = <<>>
        /\ call = NoCall

\* an unknown movie_id sent with a known user_id and no k
C6_Witness ==
    /\ Ranked /\ Positive(req.body.movie_id)
    /\ req.body.movie_id[1] \notin DOMAIN MoviesByID
    /\ Positive(req.body.user_id) /\ req.body.user_id[1] \in DOMAIN UsersByID
    /\ req.body.k = Nil
    /\ resp.status = 404

\* the score of the popularity-only mode: rating mean + 0.15 vote average
\* + 0.02 popularity + 0.5 log1p(rating count), and no user term
PopularityScore(m) ==
    m.RatingMean * 1000 + m.TMDBVoteAvg * 150 + m.TMDBPopularity * 20
    + Log1pTable[m.RatingCount] \div 2

\* C7: a user-anchored request whose positive user_id is no key of the user
\* table is served: over a loaded store its result list is not empty, is in
\* non-increasing order of the popularity-only score, which is the score
\* each result carries, and no result has the tag "matches_user_taste".
C7_UnknownUserPopularity ==
    (Ranked /\ ~Positive(req.body.movie_id) /\ Positive(req.body.user_id)
            /\ req.body.user_id[1] \notin DOMAIN UsersByID) =>
        /\ resp.status = 200
        /\ Len(resp.Results) >= 1
        /\ \A i \in 1..Len(resp.Results) :
              /\ "matches_user_taste" \notin ReasonSet(resp.Results[i])
              /\ \E j \in 1..Len(Movies) :
                    /\ Movies[j].MovieID = resp.Results[i].MovieID
                    /\ Movies[j].Title = resp.Results[i].Title
                    /\ PopularityScore(Movies[j]) = resp.Results[i].Score
        /\ \A i \in 1..(Len(resp.Results) - 1) :
              resp.Results[i].Score >= resp.Results[i + 1].Score

\* an unknown user served three results, of a store that holds a movie a
\* known user's taste would match
C7_Witness ==
    /\ Served /\ ~Positive(req.body.movie_id) /\ Positive(req.body.user_id)
    /\ req.body.user_id[1] \notin DOMAIN UsersByID
    /\ Len(resp.Results) >= 3
    /\ resp.Results[1].Score > resp.Results[3].Score

\* the k a request asks for: 0 when the member is absent
RequestedK == IF req.body.k = Nil THEN 0 ELSE req.body.k[1]

\* the request names an anchor handleRank can resolve
Resolvable ==
    \/ Positive(req.body.movie_id) /\ req.body.movie_id[1] \in DOMAIN MoviesByID
    \/ ~Positive(req.body.movie_id) /\ Positive(req.body.user_id)

\* C8: the K a ranker is called with is 25 when the request's k is absent,
\* zero or negative and the request's k otherwise, so never below 1; a
\* request is not rejected for its k: one with a resolvable anchor is served
\* whatever its k.
C8_EffectiveK ==
    Ranked =>
        /\ call.fn # "none" =>
              /\ call.k = (IF RequestedK <= 0 THEN 25 ELSE RequestedK)
              /\ call.k >= 1
        /\ Resolvable => resp.status = 200 /\ call.fn # "none"
        /\ Resolvable <=> call.fn # "none"

\* a request with k 0, served with K 25 and so with the whole store
C8_Witness ==
    /\ Served
    /\ req.body.k = Ptr(0)
    /\ call.fn = "rankMovies" /\ call.k = 25
    /\ Len(resp.Results) = Len(Movies)
    /\ Len(Movies) >= 2

(***************************************************************************)
(* Properties of genreSimilarity (under SpecGenre).                        *)
(***************************************************************************)
Applied == probe.op = "genreSimilarity"

NonBlank(s) == \E i \in 1..Len(s) : ~IsSpace(s[i])

\* the genre string of a movie that counts: the enrichment one unless blank
CountedGenres(m) == IF NonBlank(m.TMDBGenres) THEN m.TMDBGenres ELSE m.Genres

\* the pieces of s between its "|" and its ends
Pieces(s) ==
    { SubSeq(s, ij[1], ij[2]) : ij \in
        { ij \in (1..(Len(s) + 1)) \X (0..Len(s)) :
            /\ ij[1] <= ij[2] + 1
            /\ ij[1] = 1 \/ s[ij[1] - 1] = "|"
            /\ ij[2] = Len(s) \/ s[ij[2] + 1] = "|"
            /\ \A n \in ij[1]..ij[2] : s[n] # "|" } }

\* the genre names of a genre string: its non-blank pieces, trimmed and lower-cased
GenreNames(s) == { ToLower(TrimSpace(piece)) : piece \in Pieces(s) } \ {<<>>}

\* C9 as stated: genreSimilarity(m, m) is 1.0 for every movie with a
\* non-blank genre string in its enrichment field or in its baseline field.
C9_ReflexiveOnNonBlank ==
    (Applied /\ probe.a = probe.b
             /\ (NonBlank(probe.a.TMDBGenres) \/ NonBlank(probe.a.Genres)))
        => probe.out = Unit

\* C9 as amended: genreSimilarity(m, m) is 1.0 for every movie whose counted
\* genre string (the enrichment string unless it is blank, else the baseline
\* string) holds at least one genre name, and 0 for every other movie, in
\* particular for one whose counted string is non-blank but made of "|" and
\* blanks only.
C9_Reflexive ==
    (Applied /\ probe.a = probe.b) =>
        /\ GenreNames(CountedGenres(probe.a)) # {} => probe.out = Unit
        /\ GenreNames(CountedGenres(probe.a)) = {} => probe.out = 0

\* a movie with two genre names compared with itself
C9_Witness ==
    /\ Applied /\ probe.a = probe.b
    /\ Cardinality(GenreNames(CountedGenres(probe.a))) = 2
    /\ probe.out = Unit

\* C10: genreSimilarity is 0 when either movie has no genre data, both of
\* its fields blank or its counted string without a genre name, and is
\* otherwise the size of the intersection over the size of the union of the
\* two movies' sets of genre names, each taken from the enrichment string
\* unless that is blank; the union it divides by is never empty.
C10_Jaccard ==
    Applied =>
        LET A == GenreNames(CountedGenres(probe.a))
            B == GenreNames(CountedGenres(probe.b))
        IN  /\ (A = {} \/ B = {}) => probe.out = 0
            /\ (~NonBlank(probe.a.TMDBGenres) /\ ~NonBlank(probe.a.Genres)) => A = {}
            /\ (~NonBlank(probe.b.TMDBGenres) /\ ~NonBlank(probe.b.Genres)) => B = {}
            /\ (A # {} /\ B # {}) =>
                  /\ Cardinality(A \cup B) > 0
                  /\ probe.out = (Cardinality(A \cap B) * Unit) \div Cardinality(A \cup B)

\* two movies that share one of three names, the first through an
\* enrichment string that differs from its baseline string
C10_Witness ==
    /\ Applied
    /\ probe.out = Unit \div 3
    /\ NonBlank(probe.a.TMDBGenres) /\ NonBlank(probe.a.Genres)
    /\ GenreNames(probe.a.TMDBGenres) # GenreNames(probe.a.Genres)

(***************************************************************************)
(* Properties of the search handler (under Spec).                          *)
(***************************************************************************)
\* handleSearch has answered a GET with the results of searchMovies
Searched ==
    /\ pc = "responded"
    /\ req.path = "/search"
    /\ resp.status = 200

\* the query as searchMovies compares it
LoweredQuery == ToLower(TrimSpace(call.query))

\* the result that lists movies as SearchResult values
AsResults(movies) ==
    [i \in 1..Len(movies) |-> [MovieID |-> movies[i].MovieID, Title |-> movies[i].Title]]

\* the order of the scored sequence s by descending score in which elements
\* of equal score keep the order they have in s
StableOrder(s) ==
    LET p == CHOOSE p \in Permutations(1..Len(s)) :
                 \A i, j \in 1..Len(s) : i < j =>
                     \/ s[p[i]].Score > s[p[j]].Score
                     \/ s[p[i]].Score = s[p[j]].Score /\ p[i] < p[j]
    IN  [i \in 1..Len(s) |-> s[p[i]].Movie]

\* C11 as stated: a search result lists the matching movies by descending
\* score, two matches of equal score in the order they have in the loaded
\* movie table.
C11_StableTies ==
    Searched =>
        LET stable == AsResults(StableOrder(scanMatches(Movies, LoweredQuery)))
        IN  resp.Results = SubSeq(stable, 1, Len(resp.Results))

(***************************************************************************)
(* Properties of search as a function (under SpecSearch).                  *)
(***************************************************************************)
\* the query is empty or made of white space only
Blank(query) == \A i \in 1..Len(query) : IsSpace(query[i])

\* C12 as stated: a search whose query is empty or white space only,
\* whether made by calling searchMovies or by a GET /search request, gives
\* an empty result sequence and no error.
C12_BlankQueryEmptyNotError ==
    /\ (probe.op = "searchMovies" /\ Blank(probe.a)) => probe.out = <<>>
    /\ (probe.op = "handleSearch" /\ Blank(probe.a)) =>
          /\ probe.out.resp.status = 200
          /\ probe.out.resp.error = ""
          /\ probe.out.resp.Results = <<>>

\* C12 as amended: searchMovies called with an empty or white-space-only
\* query returns an empty result sequence, whatever the store holds, and
\* has no error to report; a GET /search request whose q is absent, empty
\* or white space only is rejected with status 400 and the error "q
\* required", without a call of searchMovies.
C12_BlankQuery ==
    /\ (probe.op = "searchMovies" /\ Blank(probe.a)) => probe.out = <<>>
    /\ (probe.op = "handleSearch" /\ Blank(probe.a)) =>
          /\ probe.out.resp.status = 400
          /\ probe.out.resp.error = "q required"
          /\ probe.out.resp.Results = <<>>
          /\ probe.out.call = NoCall

\* a white-space query given to searchMovies over a loaded store
C12_Witness ==
    /\ probe.op = "searchMovies"
    /\ probe.a = <<" ">>
    /\ Len(Movies) = MaxRows
    /\ probe.out = <<>>

(***************************************************************************)
(* Properties of the search handler, continued (under Spec).               *)
(***************************************************************************)
\* t ends with a year in parentheses: "(", four digits, ")"
YearSuffix(t) ==
    /\ Len(t) >= 6
    /\ t[Len(t) - 5] = "(" /\ t[Len(t)] = ")"
    /\ \A i \in (Len(t) - 4)..(Len(t) - 1) : IsDigit(t[i])

\* the title without its trailing "(YYYY)"
WithoutYear(title) ==
    LET t == TrimSpace(title)
    IN  IF YearSuffix(t) THEN TrimSpace(SubSeq(t, 1, Len(t) - 6)) ELSE t

MatchesIgnoringYear(m, q) == Contains(ToLower(WithoutYear(m.Title)), q)

\* the rows of the store listed in the response
Listed(p) ==
    \E i \in 1..Len(resp.Results) :
        /\ resp.Results[i].MovieID = Movies[p].MovieID
        /\ resp.Results[i].Title = Movies[p].Title

\* C13 as stated: a movie is found by a query iff the lower-cased trimmed
\* query is a substring of the lower-cased title without its trailing
\* "(YYYY)"; "matrix" finds "Matrix, The (1999)", and "se7en" with limit 5
\* over Fight Club (1999) and Se7en (1995) returns Se7en (1995) alone.
C13_MatchesIgnoringYear ==
    Searched =>
        /\ \A i \in 1..Len(resp.Results) :
              \E p \in 1..Len(Movies) :
                  /\ resp.Results[i] = AsResults(Movies)[p]
                  /\ MatchesIgnoringYear(Movies[p], LoweredQuery)
        /\ Len(resp.Results) < call.limit =>
              \A p \in 1..Len(Movies) :
                  MatchesIgnoringYear(Movies[p], LoweredQuery) => Listed(p)
        /\ (Movies = <<ScenarioFightClub, ScenarioSe7en>>
                /\ LoweredQuery = <<"s","e","7","e","n">> /\ call.limit = 5) =>
              resp.Results = AsResults(<<ScenarioSe7en>>)

\* the title as the search compares it, and the score of the claim:
\* 3 for a prefix match, 1 for a substring match, 0.1 * log1p(rating_count)
Stripped(m) == ToLower(stripYear(m.Title))
IsMatch(m, q) == HasPrefix(Stripped(m), q) \/ Contains(Stripped(m), q)
ExpectedScore(m, q) ==
    (IF HasPrefix(Stripped(m), q) THEN 3 * Unit ELSE 0)
    + (IF Contains(Stripped(m), q) THEN Unit ELSE 0)
    + Log1p(m.RatingCount) \div 10

\* the rows of the store that match the query
MatchingRows == { p \in 1..Len(Movies) : IsMatch(Movies[p], LoweredQuery) }

\* C14: a search result is the first min(limit, M) elements of an ordering
\* of the M matching rows of the store by descending score, the score being
\* 3 for a prefix match plus 1 for a substring match plus
\* 0.1 * log1p(rating_count); a row that matches in neither way is not
\* listed.
C14_FilterThenRank ==
    Searched =>
        /\ Len(resp.Results) = Min(call.limit, Cardinality(MatchingRows))
        /\ \E f \in [1..Len(resp.Results) -> MatchingRows] :
              /\ \A i, j \in DOMAIN f : i # j => f[i] # f[j]
              /\ \A i \in DOMAIN f : resp.Results[i] = AsResults(Movies)[f[i]]
              /\ \A i, j \in DOMAIN f :
                    i < j => ExpectedScore(Movies[f[i]], LoweredQuery)
                                >= ExpectedScore(Movies[f[j]], LoweredQuery)
              /\ \A i \in DOMAIN f :
                    \A p \in MatchingRows \ { f[j] : j \in DOMAIN f } :
                        ExpectedScore(Movies[f[i]], LoweredQuery)
                            >= ExpectedScore(Movies[p], LoweredQuery)
        /\ \A p \in (1..Len(Movies)) \ MatchingRows :
              ~\E i \in 1..Len(resp.Results) :
                    resp.Results[i] = AsResults(Movies)[p]

\* a search over a store with a prefix match, a substring match of a higher
\* rating count and a row that does not match, its limit cutting the
\* substring match off
C14_Witness ==
    /\ Searched
    /\ Len(Movies) = 3
    /\ Cardinality(MatchingRows) = 2
    /\ call.limit = 1
    /\ Len(resp.Results) = 1
    /\ \E p, r \in MatchingRows :
          /\ HasPrefix(Stripped(Movies[p]), LoweredQuery)
          /\ ~HasPrefix(Stripped(Movies[r]), LoweredQuery)
          /\ Movies[r].RatingCount > Movies[p].RatingCount
          /\ resp.Results[1] = AsResults(Movies)[p]

(***************************************************************************)
(* Properties of the load (under Spec).                                    *)
(***************************************************************************)
\* main has called LoadData
Loaded == pc # "boot"

\* the header of a file and its data records, as the reader returns them
HeaderOf(file) == Head(file.records).fields
DataRows(file) == [i \in 1..(Len(file.records) - 1) |-> file.records[i + 1].fields]

\* the file can be opened and every record of it can be read
Readable(file) ==
    /\ file.exists
    /\ file.records # <<>>
    /\ \A i \in 1..Len(file.records) : file.records[i].err = ""

HasColumns(file, required) ==
    \A i \in 1..Len(required) :
        \E j \in 1..Len(HeaderOf(file)) : HeaderOf(file)[j] = required[i]

\* the data rows with as many fields as the header
RECURSIVE RowsOfWidth(_, _)
RowsOfWidth(rows, n) ==
    IF rows = <<>> THEN <<>>
    ELSE IF Len(Head(rows)) = n THEN <<Head(rows)>> \o RowsOfWidth(Tail(rows), n)
    ELSE RowsOfWidth(Tail(rows), n)

\* C15 as stated: a data row whose number of fields differs from the
\* header's is skipped; the load succeeds and the movie list holds one
\* record for each of the other rows, and none for the skipped ones.
C15_MalformedRowsSkipped ==
    (/\ Loaded
     /\ Readable(moviesFile) /\ HasColumns(moviesFile, requiredMovieColumns)
     /\ usersFile = TwoUsersFile
     /\ RowsOfWidth(DataRows(moviesFile), Len(HeaderOf(moviesFile))) # <<>>)
        => /\ loadErr = ""
           /\ Len(Movies) =
                 Len(RowsOfWidth(DataRows(moviesFile), Len(HeaderOf(moviesFile))))

\* the header of the file can be read
HeaderReadable(file) ==
    file.exists /\ file.records # <<>> /\ Head(file.records).err = ""

\* the header can be read and lacks a required column
LacksColumn(file, required) == HeaderReadable(file) /\ ~HasColumns(file, required)

\* the file is parsed without error
Parsed(file, required) == Readable(file) /\ HasColumns(file, required)

StoreEmpty == Movies = <<>> /\ MoviesByID = EmptyMap /\ UsersByID = EmptyMap

\* C16: when the header of the movie table lacks movieId, title, rating_mean
\* or rating_count, or the movie table is parsed and the header of the user
\* table lacks userId, rating_mean or rating_count, LoadData returns the
\* missing-column error and the movie list, the movie-by-id map and the
\* user-by-id map stay empty as they were at startup; when the movie table
\* fails to parse for another reason, the load fails with that error, and
\* nothing is installed either.
C16_MissingColumnAborts ==
    /\ (/\ Loaded
        /\ \/ LacksColumn(moviesFile, requiredMovieColumns)
           \/ /\ Parsed(moviesFile, requiredMovieColumns)
              /\ LacksColumn(usersFile, requiredUserColumns))
           => loadErr = "missing column" /\ StoreEmpty
    /\ (Loaded /\ LacksColumn(usersFile, requiredUserColumns))
           => loadErr # "" /\ StoreEmpty

\* the load of a parsed movie table with rows and of a user table without
\* one of its required columns
C16_Witness ==
    /\ Loaded
    /\ Parsed(moviesFile, requiredMovieColumns)
    /\ Len(DataRows(moviesFile)) = 2
    /\ LacksColumn(usersFile, requiredUserColumns)
    /\ Len(DataRows(usersFile)) = 2
    /\ loadErr = "missing column"
    /\ StoreEmpty

\* C17: when both tables are parsed and the movie table or the user table
\* has no row, LoadData returns the empty-data error and installs nothing:
\* the movie list and both maps stay empty.
C17_EmptyTableRejected ==
    (/\ Loaded
     /\ Parsed(moviesFile, requiredMovieColumns)
     /\ Parsed(usersFile, requiredUserColumns)
     /\ (DataRows(moviesFile) = <<>> \/ DataRows(usersFile) = <<>>))
        => loadErr = "loaded empty data" /\ StoreEmpty

\* the load of a movie table with rows and of a user table without rows
C17_Witness ==
    /\ Loaded
    /\ Parsed(moviesFile, requiredMovieColumns)
    /\ Len(DataRows(moviesFile)) = MaxRows
    /\ Parsed(usersFile, requiredUserColumns)
    /\ DataRows(usersFile) = <<>>
    /\ loadErr = "loaded empty data"
    /\ StoreEmpty

\* Numerals, read independently of the loader: the value of a string of
\* digits, and the value in tenths of digits with at most one decimal place.
DigitOf ==
    ("0" :> 0) @@ ("1" :> 1) @@ ("2" :> 2) @@ ("3" :> 3) @@ ("4" :> 4)
    @@ ("5" :> 5) @@ ("6" :> 6) @@ ("7" :> 7) @@ ("8" :> 8) @@ ("9" :> 9)

IsNatural(s) == s # <<>> /\ \A i \in 1..Len(s) : s[i] \in DOMAIN DigitOf

RECURSIVE NaturalValue(_)
NaturalValue(s) ==
    IF s = <<>> THEN 0
    ELSE 10 * NaturalValue(SubSeq(s, 1, Len(s) - 1)) + DigitOf[s[Len(s)]]

IsDecimal(s) ==
    \/ IsNatural(s)
    \/ /\ Len(s) >= 3
       /\ s[Len(s) - 1] = "."
       /\ IsNatural(SubSeq(s, 1, Len(s) - 2))
       /\ s[Len(s)] \in DOMAIN DigitOf

DecimalTenths(s) ==
    IF IsNatural(s) THEN 10 * NaturalValue(s)
    ELSE 10 * NaturalValue(SubSeq(s, 1, Len(s) - 2)) + DigitOf[s[Len(s)]]

\* the field of a row under the column col of the header
FieldOf(file, row, col) ==
    row[CHOOSE j \in 1..Len(HeaderOf(file)) : HeaderOf(file)[j] = col]

\* a row with as many fields as the header, whose id and rating count are
\* numbers and whose rating mean is a decimal
WellFormedRow(file, row) ==
    /\ Len(row) = Len(HeaderOf(file))
    /\ IsNatural(FieldOf(file, row, "movieId"))
    /\ IsNatural(FieldOf(file, row, "rating_count"))
    /\ IsDecimal(FieldOf(file, row, "rating_mean"))

\* every row of the movie table is well formed and no two have the same id
WellFormedTable(file) ==
    /\ Parsed(file, requiredMovieColumns)
    /\ \A i \in 1..Len(DataRows(file)) : WellFormedRow(file, DataRows(file)[i])
    /\ \A i, j \in 1..Len(DataRows(file)) :
          i # j => NaturalValue(FieldOf(file, DataRows(file)[i], "movieId"))
                     # NaturalValue(FieldOf(file, DataRows(file)[j], "movieId"))

\* the store holds the tables of a load that succeeded
Installed == Loaded /\ loadErr = ""

\* C18: the load of a movie table of N well-formed rows with distinct ids,
\* with a user table that has rows, leaves a movie list of length N in file
\* order whose records have the id, title, rating mean and rating count of
\* their rows, and a movie-by-id map of exactly N entries that returns for
\* each row's id the record of that row.
C18_RoundTrip ==
    (/\ Loaded
     /\ WellFormedTable(moviesFile) /\ DataRows(moviesFile) # <<>>
     /\ Parsed(usersFile, requiredUserColumns) /\ DataRows(usersFile) # <<>>)
        => LET rows == DataRows(moviesFile)
               idOf(i) == NaturalValue(FieldOf(moviesFile, rows[i], "movieId"))
           IN  /\ loadErr = ""
               /\ Len(Movies) = Len(rows)
               /\ \A i \in 1..Len(rows) :
                     /\ Movies[i].MovieID = idOf(i)
                     /\ Movies[i].Title = FieldOf(moviesFile, rows[i], "title")
                     /\ Movies[i].RatingMean =
                           DecimalTenths(FieldOf(moviesFile, rows[i], "rating_mean"))
                     /\ Movies[i].RatingCount =
                           NaturalValue(FieldOf(moviesFile, rows[i], "rating_count"))
               /\ Cardinality(DOMAIN MoviesByID) = Len(rows)
               /\ \A i \in 1..Len(rows) :
                     idOf(i) \in DOMAIN MoviesByID /\ MoviesByID[idOf(i)] = Movies[i]

\* the load of MaxRows well-formed rows whose ids are not in increasing order
C18_Witness ==
    /\ Installed
    /\ WellFormedTable(moviesFile)
    /\ Len(DataRows(moviesFile)) = MaxRows
    /\ Len(Movies) = MaxRows
    /\ Movies[1].MovieID > Movies[MaxRows].MovieID
    /\ Cardinality(DOMAIN MoviesByID) = MaxRows

\* Signed numerals, read independently of the loader.
Signed(s) == s # <<>> /\ s[1] \in {"+", "-"}
Digits(s) == IF Signed(s) THEN SubSeq(s, 2, Len(s)) ELSE s
IsInteger(s) == IsNatural(Digits(s))
IntegerValue(s) ==
    IF Signed(s) /\ s[1] = "-" THEN 0 - NaturalValue(Digits(s)) ELSE NaturalValue(Digits(s))
IsSignedDecimal(s) == IsDecimal(Digits(s))
SignedTenths(s) ==
    IF Signed(s) /\ s[1] = "-" THEN 0 - DecimalTenths(Digits(s)) ELSE DecimalTenths(Digits(s))

\* the columns of the two tables, each with the member it is loaded into
IntColumns == {<<"movieId", "MovieID">>, <<"rating_count", "RatingCount">>}
FloatColumns ==
    {<<"rating_mean", "RatingMean">>, <<"tmdb_vote_avg", "TMDBVoteAvg">>,
     <<"tmdb_popularity", "TMDBPopularity">>}
StringColumns ==
    {<<"title", "Title">>, <<"genres", "Genres">>, <<"tmdb_genres", "TMDBGenres">>,
     <<"tmdb_poster_path", "TMDBPosterPath">>, <<"tmdb_overview", "TMDBOverview">>,
     <<"tmdb_release_date", "TMDBRelease">>}

\* the text a row has for a column: empty when the header has no such
\* column or the row ends before it
TextOf(file, row, col) ==
    IF \E j \in 1..Len(row) : j <= Len(HeaderOf(file)) /\ HeaderOf(file)[j] = col
    THEN FieldOf(file, row, col)
    ELSE <<>>

\* what a numeric field is loaded as: its value, and 0 when it is blank or
\* not a number of its type
IntegerOrZero(s) == IF IsInteger(TrimSpace(s)) THEN IntegerValue(TrimSpace(s)) ELSE 0
TenthsOrZero(s) == IF IsSignedDecimal(TrimSpace(s)) THEN SignedTenths(TrimSpace(s)) ELSE 0

\* C19: when both tables can be read and have their required columns and
\* at least one row each, the load succeeds whatever the rows hold: the
\* movie list has one record per row, in which every numeric member is the
\* value of its field, and 0 when the field is blank, is not a number of
\* the member's type or is absent, and every string member is its field as
\* it stands, and empty when the column is absent; so each record depends
\* on its own row alone.  The users of the user table are loaded likewise.
C19_ParseFailuresCoerced ==
    (/\ Loaded
     /\ Parsed(moviesFile, requiredMovieColumns) /\ DataRows(moviesFile) # <<>>
     /\ Parsed(usersFile, requiredUserColumns) /\ DataRows(usersFile) # <<>>)
        => LET rows == DataRows(moviesFile)
               users == DataRows(usersFile)
           IN  /\ loadErr = ""
               /\ Len(Movies) = Len(rows)
               /\ \A i \in 1..Len(rows) :
                     /\ \A c \in IntColumns :
                           Movies[i][c[2]] = IntegerOrZero(TextOf(moviesFile, rows[i], c[1]))
                     /\ \A c \in FloatColumns :
                           Movies[i][c[2]] = TenthsOrZero(TextOf(moviesFile, rows[i], c[1]))
                     /\ \A c \in StringColumns :
                           Movies[i][c[2]] = TextOf(moviesFile, rows[i], c[1])
               /\ \A i \in 1..Len(users) :
                     LET id == IntegerOrZero(TextOf(usersFile, users[i], "userId"))
                     IN  /\ id \in DOMAIN UsersByID
                         /\ (\A j \in (i + 1)..Len(users) :
                                IntegerOrZero(TextOf(usersFile, users[j], "userId")) # id)
                            => /\ UsersByID[id].RatingMean =
                                     TenthsOrZero(TextOf(usersFile, users[i], "rating_mean"))
                               /\ UsersByID[id].RatingCount =
                                     IntegerOrZero(TextOf(usersFile, users[i], "rating_count"))

\* the load of a table without the genres column in which one row has a
\* rating count that is not a number and another row a rating count that is
\* one
C19_Witness ==
    /\ Installed
    /\ ~HasColumns(moviesFile, <<"genres">>)
    /\ \E i, j \in 1..Len(Movies) :
          /\ TrimSpace(TextOf(moviesFile, DataRows(moviesFile)[i], "rating_count")) # <<>>
          /\ ~IsInteger(TrimSpace(TextOf(moviesFile, DataRows(moviesFile)[i], "rating_count")))
          /\ Movies[i].RatingCount = 0
          /\ Movies[i].RatingMean = 0
          /\ Movies[i].Genres = <<>>
          /\ Movies[j].RatingCount > 0
          /\ Movies[j].RatingMean > 0

(***************************************************************************)
(* Properties of the store under concurrent requests (under SpecServe).    *)
(***************************************************************************)
\* the store as the one call of LoadData leaves it
LoadedStore ==
    IF loadData.install
    THEN <<loadData.movies, moviesByID(loadData.movies), usersByID(loadData.users)>>
    ELSE <<<<>>, EmptyMap, EmptyMap>>

\* C20: no request is in a handler before main has called LoadData; from
\* then on the store is what that call left, LoadData is not called again,
\* and no step of any handler, of a request served or rejected, in any
\* interleaving of up to MaxInFlight concurrent rank, search, detail and
\* health requests, changes the movie list, the movie-by-id map or the
\* user-by-id map; so the store a handler has read is the store every other
\* handler reads.
C20_StoreReadOnly ==
    /\ [](pc = "boot" => \A g \in 1..MaxInFlight : inflight[g].phase = "idle")
    /\ [](Loaded => Store = LoadedStore)
    /\ [](\A g \in 1..MaxInFlight :
             inflight[g].phase = "computed" => inflight[g].seen = Store)
    /\ [][pc # "boot" => (pc' # "boot" /\ Store' = Store)]_vars

\* two handlers that have both computed their responses over a loaded
\* store, a search that was served and a rank request that was rejected
C20_Witness ==
    /\ Len(Movies) > 0
    /\ \E g, h \in 1..MaxInFlight :
          /\ inflight[g].phase = "computed" /\ inflight[h].phase = "computed"
          /\ inflight[g].req.path = "/search" /\ inflight[g].resp.status = 200
          /\ Len(inflight[g].resp.Results) = 2
          /\ inflight[h].req.path = "/rank" /\ inflight[h].resp.status = 404
          /\ inflight[g].seen = inflight[h].seen

(***************************************************************************)
(* Properties of the reason tags (under Spec).                             *)
(***************************************************************************)
\* the tags of the claim, with its thresholds taken over the decimal values
TagIf(cond, tag) == IF cond THEN {tag} ELSE {}

UserTags(m, user) ==
    TagIf(m.TMDBVoteAvg >= 75, "high_vote_avg")
    \cup TagIf(m.RatingCount >= 1000, "popular_in_movielens")
    \cup TagIf(user # Nil /\ Abs(m.RatingMean - user[1].RatingMean) <= 5,
               "matches_user_taste")

\* genre Jaccard(seed, candidate) >= 0.4, 0 when either has no genre name
JaccardAtLeastTwoFifths(a, b) ==
    LET A == GenreNames(CountedGenres(a))
        B == GenreNames(CountedGenres(b))
    IN  /\ A # {} /\ B # {}
        /\ 10 * Cardinality(A \cap B) >= 4 * Cardinality(A \cup B)

MovieTags(seed, candidate) ==
    TagIf(JaccardAtLeastTwoFifths(seed, candidate), "similar_genres")
    \cup TagIf(Abs(seed.RatingMean - candidate.RatingMean) <= 3, "similar_ratings")
    \cup TagIf(candidate.RatingCount >= 1000, "popular_in_movielens")

\* result is the entry of some row of the store that carries exactly the
\* tags of the claim, once each, and the score the ranker gives that row
TaggedByThreshold(result) ==
    \E p \in 1..Len(Movies) :
        /\ Movies[p].MovieID = result.MovieID /\ Movies[p].Title = result.Title
        /\ Len(result.Reasons) = Cardinality(ReasonSet(result))
        /\ call.fn = "rankMovies" =>
              /\ ReasonSet(result) = UserTags(Movies[p], call.user)
              /\ result.Score = scoreMovie(Movies[p], call.user)
        /\ call.fn = "rankMoviesByMovie" =>
              /\ ReasonSet(result) = MovieTags(call.seed[1], Movies[p])
              /\ result.Score = scoreMovieSimilarity(call.seed[1], Movies[p])

\* C21 as stated: every ranked result carries exactly the tags whose
\* threshold holds: user-anchored, "high_vote_avg" iff the vote average is
\* at least 7.5, "popular_in_movielens" iff the rating count is at least
\* 1000, "matches_user_taste" iff a user was resolved and the means differ
\* by at most 0.5; movie-anchored, "similar_genres" iff the genre Jaccard is
\* at least 0.4, "similar_ratings" iff the means differ by at most 0.3,
\* "popular_in_movielens" as before; and the score and the position of a
\* result are those of the ranker's score, whatever its tags.
C21_TagsByThreshold ==
    Served =>
        /\ \A i \in 1..Len(resp.Results) : TaggedByThreshold(resp.Results[i])
        /\ \A i, j \in 1..Len(resp.Results) :
              i < j => resp.Results[i].Score >= resp.Results[j].Score

(***************************************************************************)
(* Properties of a service whose load failed (under Spec).                 *)
(***************************************************************************)
\* handleRank has answered a POST, whatever its body
RankPosted == pc = "responded" /\ req.path = "/rank" /\ req.method = "POST"

\* C22: when LoadData returns an error, whichever it is, the service
\* serves all the same, with the movie list and both maps empty, and every
\* POST /rank is answered 503 "no data loaded", a body that is not valid
\* JSON or that names no anchor included, without a ranker being called; in
\* no state does a POST /rank over an empty movie list carry results.
C22_FailedLoadUnavailable ==
    /\ (Loaded /\ loadErr # "") =>
          /\ StoreEmpty
          /\ pc \in {"serving", "responded"}
          /\ RankPosted =>
                /\ resp.status = 503
                /\ resp.error = "no data loaded"
                /\ resp.Results = <<>>
                /\ call = NoCall
    /\ (RankPosted /\ Movies = <<>>) => (resp.status = 503 /\ resp.Results = <<>>)

\* a POST /rank whose body is not valid JSON, answered 503 after the load
\* of a movie table with rows failed on its user table
C22_Witness ==
    /\ RankPosted
    /\ ~req.json
    /\ Parsed(moviesFile, requiredMovieColumns) /\ DataRows(moviesFile) # <<>>
    /\ loadErr = "open"
    /\ StoreEmpty
    /\ resp.status = 503

(***************************************************************************)
(* The movie list and the movie-by-id map of a loaded store (under Spec).  *)
(***************************************************************************)
\* the positions of the movie list that hold a record with this id
PositionsOf(id) == { i \in 1..Len(Movies) : Movies[i].MovieID = id }

Last(positions) == CHOOSE i \in positions : \A j \in positions : j <= i

UniqueIDs == \A i, j \in 1..Len(Movies) : Movies[i].MovieID = Movies[j].MovieID => i = j

\* handleMovie has answered a GET whose path ends in a number
DetailServed == pc = "responded" /\ req.path = "/movie/" /\ req.method = "GET"
                /\ IsNatural(req.rest)

\* C23: after a load that succeeded the keys of the movie-by-id map are
\* the ids that occur in the movie list, and the map holds for each id the
\* record at the last position of the list with that id; so with unique ids
\* the map returns every record of the list for its id, and where two
\* positions share an id both records stay in the list while the map, and
\* with it GET /movie/<id>, returns the record of the later position.
C23_MapAgreesWithList ==
    Installed =>
        /\ DOMAIN MoviesByID = { Movies[i].MovieID : i \in 1..Len(Movies) }
        /\ \A id \in DOMAIN MoviesByID : MoviesByID[id] = Movies[Last(PositionsOf(id))]
        /\ UniqueIDs => \A i \in 1..Len(Movies) : MoviesByID[Movies[i].MovieID] = Movies[i]
        /\ Len(Movies) = Len(DataRows(moviesFile))
        /\ \A i, j \in 1..Len(Movies) :
              (i < j /\ Movies[i].MovieID = Movies[j].MovieID
                     /\ j = Last(PositionsOf(Movies[j].MovieID)))
                 => MoviesByID[Movies[i].MovieID] = Movies[j]
        /\ DetailServed =>
              IF PositionsOf(NaturalValue(req.rest)) = {}
              THEN resp.status = 404 /\ resp.Movie = Nil
              ELSE /\ resp.status = 200
                   /\ resp.Movie = Ptr(Movies[Last(PositionsOf(NaturalValue(req.rest)))])

\* two rows whose movieId is not a number are both in the list with id 0,
\* as different records, and GET /movie/0 returns the second
C23_Witness ==
    /\ Installed
    /\ Len(Movies) = 2
    /\ \A i \in 1..2 : ~IsInteger(FieldOf(moviesFile, DataRows(moviesFile)[i], "movieId"))
    /\ Movies[1].MovieID = 0 /\ Movies[2].MovieID = 0
    /\ Movies[1] # Movies[2]
    /\ DetailServed /\ req.rest = <<"0">>
    /\ resp.status = 200 /\ resp.Movie = Ptr(Movies[2])

(***************************************************************************)
(* The limit handleSearch passes to searchMovies (under Spec).             *)
(***************************************************************************)
\* the URL parameter limit is absent, not a number, zero or negative
LimitUnusable ==
    \/ req.limit = <<>>
    \/ ~IsInteger(req.limit)
    \/ IntegerValue(req.limit) <= 0

\* C24: handleSearch calls searchMovies with a limit of at least 1: a
\* limit parameter that is absent, not a number, zero or negative gives the
\* default 10, any other gives its value; so the capacity of the result
\* slice, the lesser of the limit and the number of matches, is never
\* negative, and the number of results returned is that lesser value.
C24_LimitAtLeastOne ==
    (pc = "responded" /\ req.path = "/search") =>
        /\ (call # NoCall) = (resp.status = 200)
        /\ Searched =>
              /\ call.fn = "searchMovies"
              /\ call.limit >= 1
              /\ LimitUnusable => call.limit = DefaultLimit
              /\ ~LimitUnusable => call.limit = IntegerValue(req.limit)
              /\ Min(call.limit, Cardinality(MatchingRows)) >= 0
              /\ Len(resp.Results) = Min(call.limit, Cardinality(MatchingRows))

\* a search with limit=-1 that matches two rows or more is run with limit
\* 10 and returns every match
C24_Witness ==
    /\ Searched
    /\ req.limit = <<"-", "1">>
    /\ call.limit = DefaultLimit
    /\ Cardinality(MatchingRows) >= 2
    /\ Len(resp.Results) = Cardinality(MatchingRows)

====
